---- MODULE Spec2Model ----
(***************************************************************************)
(* Model of the Sevalla Terraform provider:                                 *)
(*   - SiteResource.Create and SiteResource.waitForOperation               *)
(*     (internal/provider/site_data_source.go), the operation poller;      *)
(*   - DatabaseService.Create (internal/sevallaapi/services.go), the       *)
(*     bounded Get-after-Create retry, and DatabaseResource.Create;        *)
(*   - Client.Get/Post/Put/Delete, Client.makeRequest and                  *)
(*     Client.handleError (internal/sevallaapi/client.go), the Transport;  *)
(*   - the partial Update requests and their serialization;                *)
(*   - the resource adapters' Create, Read, Update, Delete, ImportState;   *)
(*   - SevallaProvider.Configure and the adapters' Configure.              *)
(*                                                                         *)
(* Time is counted in poll intervals (one unit = the ticker period, 5 s).  *)
(* Errors are sequences of message fragments (the pieces fmt.Errorf        *)
(* joins); the nil error is the empty sequence.                            *)
(***************************************************************************)
EXTENDS Integers, Sequences, FiniteSets, TLC

VARIABLES
    pc,            \* position of SiteResource.Create / waitForOperation
    ctxDone,       \* the caller's context has been cancelled
    now,           \* poll intervals elapsed since waitForOperation started
    tickReady,     \* ticker.C holds a tick (channel of capacity 1)
    timeoutReady,  \* the time.After channel holds its value
    posts,         \* POST /sites requests submitted by this Create call
    operationID,   \* opResp.OperationID handed to waitForOperation
    polls,         \* Operations.GetStatus calls started
    pollAt,        \* time at which the latest GetStatus call started
    fetchMax,      \* the longest GetStatus call so far, in poll intervals
    statuses,      \* op.Status of every GetStatus response, in order
    lastOp,        \* the latest Operation decoded by GetStatus
    pollerResult,  \* what waitForOperation returned (returned, id, err)
    returnAt,      \* time at which waitForOperation returned, -1 before
    cancelAt,      \* time at which the context was cancelled, -1 before
    cancelMidWait, \* the cancellation fired while the poller was blocked in select
    siteGets,      \* identifiers passed to Sites.Get by Create, in order
    diags,         \* resp.Diagnostics of the site Create call
    tfState        \* resp.State of the site Create call

siteVars == <<pc, ctxDone, now, tickReady, timeoutReady, posts, operationID,
              polls, pollAt, fetchMax, statuses, lastOp, pollerResult, returnAt,
              cancelAt, cancelMidWait, siteGets, diags, tfState>>

VARIABLES
    dbPc,        \* position of DatabaseResource.Create / DatabaseService.Create
    dbCtxDone,   \* the context of the database Create call has been cancelled
    dbPosts,     \* POST /databases requests submitted
    dbID,        \* createResp.Database.ID
    dbI,         \* the loop variable i of DatabaseService.Create
    dbSleeps,    \* time.Sleep(time.Second) calls made
    dbGetLog,    \* (db, err) of every post-creation Get, in order
    dbRet,       \* what DatabaseService.Create returned (returned, db, err)
    dbDiags,     \* resp.Diagnostics of the database Create call
    dbState      \* resp.State of the database Create call

dbVars == <<dbPc, dbCtxDone, dbPosts, dbID, dbI, dbSleeps, dbGetLog, dbRet,
            dbDiags, dbState>>

VARIABLES
    trPc,        \* position of one Transport call: "idle", "sent", "done"
    trCtxDone,   \* the context of the Transport call has been cancelled
    trReq,       \* the call: method, base URL, whether a result is decoded
    trExchanges, \* c.HTTPClient.Do calls made by the Transport call
    trResp,      \* the response the exchange produced, if any
    trErr        \* the error the Transport call returned

trVars == <<trPc, trCtxDone, trReq, trExchanges, trResp, trErr>>

VARIABLES
    updKind,     \* the service whose Update was called, "" before the call
    updPlan,     \* the plan StaticSiteResource.Update read, if it made the call
    updReq,      \* the partial request passed to Update
    updBody      \* the JSON object sent: member name -> value

updVars == <<updKind, updPlan, updReq, updBody>>

VARIABLES
    adKind,      \* the kind of resource the adapter manages, "" before Create
    adState,     \* the Terraform state of the resource (present, data)
    adRemote,    \* the platform's record of the entity
    adCreated,   \* the state Create set, and the record it was set from
    adPrev,      \* the handler that ran before the latest one
    adLast       \* the latest handler: op, record fetched, error, diagnostic

adVars == <<adKind, adState, adRemote, adCreated, adPrev, adLast>>

VARIABLES
    cfgDone,          \* SevallaProvider.Configure has run
    cfgInput,         \* its inputs: the environment, token, base_url
    cfgDiags,         \* summaries of the errors in resp.Diagnostics
    resourceData,     \* resp.ResourceData
    dataSourceData,   \* resp.DataSourceData
    resourceClient,   \* r.client of every resource
    dataSourceClient  \* d.client of every data source

cfgVars == <<cfgDone, cfgInput, cfgDiags, resourceData, dataSourceData,
             resourceClient, dataSourceClient>>

VARIABLES
    ccClient,    \* the Client shared by the adapters: BaseURL, Token, Timeout
    ccCalls,     \* per goroutine: position, service call, request, result
    ccRemote     \* the platform's applications by identifier

ccVars == <<ccClient, ccCalls, ccRemote>>

VARIABLES
    cache,        \* ProviderCache.cache: key -> entry (Data, Timestamp, TTL)
    cacheNow,     \* the clock, in minutes since the cache was made
    cacheRemote,  \* the platform's version of each application
    cacheLast     \* the latest call on the optimized client and its outcome

cacheVars == <<cache, cacheNow, cacheRemote, cacheLast>>

VARIABLES
    bpOperations, \* bp.operations: the buffered channel of operations
    bpResults,    \* bp.results: id -> the operation last submitted under it
    bpSending,    \* per operation: Submit calls that wait to send it
    bpSubmits,    \* Submit calls made so far
    bpBatch,      \* batch, the slice processBatches collects
    bpTick,       \* ticker.C holds a tick (channel of capacity 1)
    bpCloses,     \* per operation: close(op.Done) calls made
    bpPanic,      \* the processor goroutine has panicked
    bpWait        \* per id: the Wait call on it and what it blocks on

bpVars == <<bpOperations, bpResults, bpSending, bpSubmits, bpBatch, bpTick,
            bpCloses, bpPanic, bpWait>>

VARIABLES
    rlTokens,     \* tokens in rl.tokens, the buffered channel
    rlTickReady,  \* rl.ticker.C holds a tick (channel of capacity 1)
    rlTicks,      \* ticks the ticker has fired since NewRateLimiter
    rlStopped,    \* Stop has been called
    rlGranted,    \* Wait calls that returned nil
    rlRefused     \* Wait calls that returned ctx.Err()

rlVars == <<rlTokens, rlTickReady, rlTicks, rlStopped, rlGranted, rlRefused>>

vars == <<siteVars, dbVars, trVars, updVars, adVars, cfgVars, ccVars,
          cacheVars, bpVars, rlVars>>

\* The variables outside each component, left alone by its actions.
notSite == <<dbVars, trVars, updVars, adVars, cfgVars, ccVars, cacheVars,
             bpVars, rlVars>>
notDb == <<siteVars, trVars, updVars, adVars, cfgVars, ccVars, cacheVars,
           bpVars, rlVars>>
notTr == <<siteVars, dbVars, updVars, adVars, cfgVars, ccVars, cacheVars,
           bpVars, rlVars>>
notUpd == <<siteVars, dbVars, trVars, adVars, cfgVars, ccVars, cacheVars,
            bpVars, rlVars>>
notAd == <<siteVars, dbVars, trVars, updVars, cfgVars, ccVars, cacheVars,
           bpVars, rlVars>>
notCfg == <<siteVars, dbVars, trVars, updVars, adVars, ccVars, cacheVars,
            bpVars, rlVars>>
notCc == <<siteVars, dbVars, trVars, updVars, adVars, cfgVars, cacheVars,
           bpVars, rlVars>>
notCache == <<siteVars, dbVars, trVars, updVars, adVars, cfgVars, ccVars,
              bpVars, rlVars>>
notBp == <<siteVars, dbVars, trVars, updVars, adVars, cfgVars, ccVars,
           cacheVars, rlVars>>
notRl == <<siteVars, dbVars, trVars, updVars, adVars, cfgVars, ccVars,
           cacheVars, bpVars>>

----------------------------------------------------------------------------
(* Bounds of the model. *)

\* Poll intervals until the time.After channel fires.  The code's deadline
\* is 10 minutes = 120 ticker periods of 5 s; the model follows a shorter one.
DeadlineTicks == 3

\* Poll intervals past the deadline for which the clock is still followed.
MaxLate == 2

\* Minutes for which the cache's clock is followed.
MaxClock == 7

\* Updates of one application that are followed.
MaxUpdates == 1

\* batchSize: operations that make a batch full.  NewPerformanceOptimizedClient
\* passes 10; the model follows smaller batches.
BatchSize == 2

\* Submit calls that are followed.
MaxSubmits == 5

\* rateLimit: the capacity of the token bucket.  NewPerformanceOptimizedClient
\* passes 10; the model follows a smaller bucket.
RateLimit == 2

\* Ticks of the rate limiter's ticker that are followed.
MaxTicks == 4

\* Wait calls on the rate limiter that are followed.
MaxWaits == 8

----------------------------------------------------------------------------
(* Values. *)

Nil == <<>>

DefaultBaseURL == "https://api.sevalla.com/v2"

CtxCanceled == <<"context canceled">>

\* Failures of one HTTP exchange other than cancellation (Client.Get/Post).
HttpErrors == { <<"HTTP 500: ", "internal error">> }

OperationIDs == {"op_9"}

ResourceIDs == {"", "site_42"}

\* *string: nil pointer or a pointer to the text.
ErrorDetails == { <<>>, <<"quota exceeded">> }

\* interface{} decoded from JSON: null, a non-object, or an object whose
\* site_id key is absent, not a string, or a string.
DataValues ==
    { [kind |-> "nil",   site_id |-> "absent", val |-> ""],
      [kind |-> "array", site_id |-> "absent", val |-> ""],
      [kind |-> "map",   site_id |-> "absent", val |-> ""],
      [kind |-> "map",   site_id |-> "number", val |-> ""],
      [kind |-> "map",   site_id |-> "string", val |-> ""],
      [kind |-> "map",   site_id |-> "string", val |-> "site_7"] }

StatusValues == {"pending", "running", "completed", "failed", "cancelling"}

Operations ==
    [Status : StatusValues, ResourceID : ResourceIDs,
     Error : ErrorDetails, Data : DataValues]

NoOperation ==
    [Status |-> "", ResourceID |-> "", Error |-> <<>>,
     Data |-> [kind |-> "nil", site_id |-> "absent", val |-> ""]]

SiteDisplayNames == {"My Site", "my-site"}

NoState == [set |-> FALSE, ID |-> "", DisplayName |-> ""]

NotReturned == [returned |-> FALSE, id |-> "", err |-> Nil]

----------------------------------------------------------------------------
(* waitForOperation: the result of one decoded GetStatus response. *)

Ret(id, err) == [id |-> id, err |-> err]

\* Mutant: the site_id of the payload is looked at before the resource id.
CompletedResult_PrefersData(op) ==
    IF op.Data.kind = "map" /\ op.Data.site_id = "string"
        THEN Ret(op.Data.val, Nil)
    ELSE IF op.ResourceID # ""
        THEN Ret(op.ResourceID, Nil)
    ELSE Ret("", <<"operation completed but site ID not found">>)

CompletedResult(op) ==
    IF op.ResourceID # ""
        THEN Ret(op.ResourceID, Nil)
    ELSE IF op.Data.kind = "map" /\ op.Data.site_id = "string"
        THEN Ret(op.Data.val, Nil)
    ELSE Ret("", <<"operation completed but site ID not found">>)

\* Mutant: the attached error detail is dropped.
FailedResult_DropsDetail(op) ==
    Ret("", <<"operation failed with unknown error">>)

FailedResult(op) ==
    IF op.Error # <<>>
        THEN Ret("", <<"operation failed: ", op.Error[1]>>)
    ELSE Ret("", <<"operation failed with unknown error">>)

\* Mutant: the failure of the call is left out of the error.
StatusFetchError_DropsCause(err) == Ret("", <<"failed to get operation status: ">>)

StatusFetchError(err) == Ret("", <<"failed to get operation status: ">> \o err)

TimeoutResult == Ret("", <<"operation timed out after 10 minutes">>)

\* Mutant: the ctx.Done() case reports the deadline instead of ctx.Err().
CancelResult_AsTimeout == Ret("", <<"operation timed out after 10 minutes">>)

CancelResult == Ret("", CtxCanceled)

\* The switch on op.Status: TRUE when the loop goes round again.
KeepsPolling(op) == op.Status \notin {"completed", "failed"}

\* Mutant: the two cases of the switch are exchanged.
StatusResult_Swapped(op) ==
    IF op.Status = "failed" THEN CompletedResult(op) ELSE FailedResult(op)

StatusResult(op) ==
    IF op.Status = "completed" THEN CompletedResult(op) ELSE FailedResult(op)

----------------------------------------------------------------------------
(* SiteResource.Create around the poller. *)

\* Mutant: Create goes on to Sites.Get whatever the poller returned.
PollerReturns_IgnoresError(res) ==
    /\ pollerResult' = [returned |-> TRUE, id |-> res.id, err |-> res.err]
    /\ returnAt' = now
    /\ pc' = "get_site"
    /\ UNCHANGED diags

\* Mutant: Create submits the provisioning request again when the poller fails.
PollerReturns_Resubmits(res) ==
    /\ pollerResult' = [returned |-> TRUE, id |-> res.id, err |-> res.err]
    /\ returnAt' = now
    /\ pc' = IF res.err # Nil THEN "init" ELSE "get_site"
    /\ UNCHANGED diags

\* waitForOperation returns res; Create adds a diagnostic and stops on an
\* error, and goes on to Sites.Get otherwise.
PollerReturns(res) ==
    /\ pollerResult' = [returned |-> TRUE, id |-> res.id, err |-> res.err]
    /\ returnAt' = now
    /\ IF res.err # Nil
          THEN /\ pc' = "done"
               /\ diags' = Append(diags,
                     [summary |-> "Operation Error",
                      detail |-> <<"Site creation operation failed: ">> \o res.err])
          ELSE /\ pc' = "get_site"
               /\ UNCHANGED diags

\* r.client.Sites.Create: one POST /sites; then waitForOperation starts its
\* ticker and its deadline timer.
SitesCreate ==
    /\ pc = "init"
    /\ posts' = posts + 1
    /\ \/ /\ \E e \in (IF ctxDone THEN {CtxCanceled} ELSE HttpErrors) :
                diags' = Append(diags,
                     [summary |-> "Client Error",
                      detail |-> <<"Unable to create site, got error: ">> \o e])
          /\ pc' = "done"
          /\ UNCHANGED <<operationID, now, tickReady, timeoutReady>>
       \/ /\ ~ctxDone
          /\ \E id \in OperationIDs : operationID' = id
          /\ pc' = "select"
          /\ now' = 0
          /\ tickReady' = FALSE
          /\ timeoutReady' = FALSE
          /\ UNCHANGED diags
    /\ UNCHANGED <<notSite, ctxDone, polls, pollAt, fetchMax, statuses, lastOp, pollerResult,
                   returnAt, cancelAt, cancelMidWait, siteGets, tfState>>

\* select, case <-ticker.C: the GetStatus call starts.  With the context
\* already cancelled the HTTP exchange fails at once.
SelectTick ==
    /\ pc = "select"
    /\ tickReady
    /\ tickReady' = FALSE
    /\ polls' = polls + 1
    /\ pollAt' = now
    /\ UNCHANGED fetchMax
    /\ IF ctxDone
          THEN PollerReturns(StatusFetchError(CtxCanceled))
          ELSE /\ pc' = "fetching"
               /\ UNCHANGED <<pollerResult, returnAt, diags>>
    /\ UNCHANGED <<notSite, ctxDone, now, timeoutReady, posts, operationID, statuses,
                   lastOp, cancelAt, cancelMidWait, siteGets, tfState>>

\* select, case <-timeout.
SelectTimeout ==
    /\ pc = "select"
    /\ timeoutReady
    /\ PollerReturns(TimeoutResult)
    /\ UNCHANGED <<notSite, ctxDone, now, tickReady, timeoutReady, posts, operationID,
                   polls, pollAt, fetchMax, statuses, lastOp, cancelAt, cancelMidWait,
                   siteGets, tfState>>

\* select, case <-ctx.Done().
SelectCtxDone ==
    /\ pc = "select"
    /\ ctxDone
    /\ PollerReturns(CancelResult)
    /\ UNCHANGED <<notSite, ctxDone, now, tickReady, timeoutReady, posts, operationID,
                   polls, pollAt, fetchMax, statuses, lastOp, cancelAt, cancelMidWait,
                   siteGets, tfState>>

\* select with no case ready: the goroutine parks.
SelectBlock ==
    /\ pc = "select"
    /\ ~tickReady /\ ~timeoutReady /\ ~ctxDone
    /\ pc' = "blocked"
    /\ UNCHANGED <<notSite, ctxDone, now, tickReady, timeoutReady, posts, operationID,
                   polls, pollAt, fetchMax, statuses, lastOp, pollerResult, returnAt,
                   cancelAt, cancelMidWait, siteGets, diags, tfState>>

\* Operations.GetStatus returns: a failure of the exchange, or a decoded
\* Operation on which waitForOperation switches.  A cancellation that arrived
\* during the exchange either aborts it or comes too late for it.
GetStatusReturns ==
    /\ pc = "fetching"
    /\ fetchMax' = IF now - pollAt > fetchMax THEN now - pollAt ELSE fetchMax
    /\ \/ /\ \E e \in (IF ctxDone THEN {CtxCanceled} ELSE HttpErrors) :
                PollerReturns(StatusFetchError(e))
          /\ UNCHANGED <<statuses, lastOp>>
       \/ \E op \in Operations :
             /\ statuses' = Append(statuses, op.Status)
             /\ IF KeepsPolling(op)
                   THEN /\ pc' = "select"
                        /\ lastOp' = NoOperation
                        /\ UNCHANGED <<pollerResult, returnAt, diags>>
                   ELSE /\ lastOp' = op
                        /\ PollerReturns(StatusResult(op))
    /\ UNCHANGED <<notSite, ctxDone, now, tickReady, timeoutReady, posts, operationID,
                   polls, pollAt, cancelAt, cancelMidWait, siteGets, tfState>>

\* One ticker period passes: the ticker sends (a full channel drops the
\* tick), the deadline timer sends once the deadline is reached, and a
\* parked select wakes up.  At the deadline the last tick and the timer fire
\* together and either may wake the select.  Time passes only while the
\* goroutine is parked or a GetStatus call is in flight: evaluating the
\* select takes no time.
AdvanceTime ==
    /\ pc \in {"blocked", "fetching"}
    /\ now < DeadlineTicks + MaxLate
    /\ now' = now + 1
    /\ tickReady' = TRUE
    /\ timeoutReady' = (timeoutReady \/ now + 1 >= DeadlineTicks)
    /\ pc' = IF pc = "blocked" THEN "select" ELSE pc
    /\ UNCHANGED <<notSite, ctxDone, posts, operationID, polls, pollAt, fetchMax, statuses, lastOp,
                   pollerResult, returnAt, cancelAt, cancelMidWait, siteGets,
                   diags, tfState>>

\* The caller cancels the context; a parked select wakes up.
Cancel ==
    /\ ~ctxDone
    /\ pc # "done"
    /\ ctxDone' = TRUE
    /\ cancelAt' = now
    /\ cancelMidWait' = (pc = "blocked")
    /\ pc' = IF pc = "blocked" THEN "select" ELSE pc
    /\ UNCHANGED <<notSite, now, tickReady, timeoutReady, posts, operationID, polls,
                   pollAt, fetchMax, statuses, lastOp, pollerResult, returnAt, siteGets,
                   diags, tfState>>

\* mapSiteToModel: the state fields copied from the fetched site.
mapSiteToModel(site) ==
    [set |-> TRUE, ID |-> site.ID, DisplayName |-> site.DisplayName]

\* r.client.Sites.Get(ctx, siteID), then mapSiteToModel and resp.State.Set.
SitesGet ==
    /\ pc = "get_site"
    /\ siteGets' = Append(siteGets, pollerResult.id)
    /\ pc' = "done"
    /\ \/ /\ \E e \in (IF ctxDone THEN {CtxCanceled} ELSE HttpErrors) :
                diags' = Append(diags,
                     [summary |-> "Client Error",
                      detail |-> <<"Unable to read created site, got error: ">> \o e])
          /\ UNCHANGED tfState
       \/ /\ ~ctxDone
          /\ \E d \in SiteDisplayNames :
                tfState' = mapSiteToModel([ID |-> pollerResult.id, DisplayName |-> d])
          /\ UNCHANGED diags
    /\ UNCHANGED <<notSite, ctxDone, now, tickReady, timeoutReady, posts, operationID,
                   polls, pollAt, fetchMax, statuses, lastOp, pollerResult, returnAt,
                   cancelAt, cancelMidWait>>

----------------------------------------------------------------------------
(* DatabaseService.Create and DatabaseResource.Create. *)

\* The loop bound of "for i := 0; i < 3; i++".
MaxGetAttempts == 3

DatabaseIDs == {"db_1", "db_2"}

\* Failures of one HTTP exchange of the database service.
DbHttpErrors ==
    { <<"HTTP 404: ", "Database not found">>, <<"HTTP 500: ", "internal error">> }

\* The records the platform may serve for a database id.
DatabaseRecords(id) == { [ID |-> id, Status |-> s] : s \in {"creating", "ready"} }

\* The zero Database that DatabaseService.Get returns beside an error.
ZeroDatabase == [ID |-> "", Status |-> ""]

\* The nil *Database returned when the POST fails.
NilDatabase == [ID |-> "nil", Status |-> "nil"]

DbNotReturned == [returned |-> FALSE, db |-> NilDatabase, err |-> Nil]

DbNoState == [set |-> FALSE, ID |-> "", Status |-> ""]

\* The errors one HTTP exchange can end in, given the context's state.
DbCallErrors == IF dbCtxDone THEN {CtxCanceled} ELSE DbHttpErrors

\* Mutant: the break on success is missing.
LeavesLoop_NoBreak(i, err) == i + 1 >= MaxGetAttempts

\* Mutant: the loop condition is off by one.
LeavesLoop_OffByOne(i, err) == err = Nil \/ i >= MaxGetAttempts

\* "if err == nil { break }" and the loop condition after i++: TRUE when
\* the loop is left after attempt number i (counted from 0) ended in err.
LeavesLoop(i, err) == err = Nil \/ i + 1 >= MaxGetAttempts

\* DatabaseService.Create returns (db, err) to DatabaseResource.Create, which
\* adds a diagnostic on an error and sets the state otherwise.
ServiceReturns(db, err) ==
    /\ dbRet' = [returned |-> TRUE, db |-> db, err |-> err]
    /\ dbPc' = "done"
    /\ IF err # Nil
          THEN /\ dbDiags' = Append(dbDiags,
                     [summary |-> "Client Error",
                      detail |-> <<"Unable to create database, got error: ">> \o err])
               /\ UNCHANGED dbState
          ELSE /\ dbState' = [set |-> TRUE, ID |-> db.ID, Status |-> db.Status]
               /\ UNCHANGED dbDiags

\* s.client.Post(ctx, "/databases", req, &createResp).
DatabasesPost ==
    /\ dbPc = "init"
    /\ dbPosts' = dbPosts + 1
    /\ \/ /\ \E e \in DbCallErrors : ServiceReturns(NilDatabase, e)
          /\ UNCHANGED <<dbID, dbI>>
       \/ /\ ~dbCtxDone
          /\ \E id \in DatabaseIDs : dbID' = id
          /\ dbI' = 0
          /\ dbPc' = "get"
          /\ UNCHANGED <<dbRet, dbDiags, dbState>>
    /\ UNCHANGED <<notDb, dbCtxDone, dbSleeps, dbGetLog>>

\* One iteration's s.Get(ctx, createResp.Database.ID) and the loop's exit test.
DatabasesGet ==
    /\ dbPc = "get"
    /\ \E out \in {[db |-> ZeroDatabase, err |-> e] : e \in DbCallErrors}
                  \cup (IF dbCtxDone THEN {}
                        ELSE {[db |-> r, err |-> Nil] : r \in DatabaseRecords(dbID)}) :
          /\ dbGetLog' = Append(dbGetLog, out)
          /\ IF LeavesLoop(dbI, out.err)
                THEN /\ ServiceReturns(out.db, out.err)
                     /\ UNCHANGED dbI
                ELSE /\ dbI' = dbI + 1
                     /\ dbPc' = "sleep"
                     /\ UNCHANGED <<dbRet, dbDiags, dbState>>
    /\ UNCHANGED <<notDb, dbCtxDone, dbPosts, dbID, dbSleeps>>

\* "if i > 0 { time.Sleep(time.Second) }".
DatabasesSleep ==
    /\ dbPc = "sleep"
    /\ dbSleeps' = dbSleeps + 1
    /\ dbPc' = "get"
    /\ UNCHANGED <<notDb, dbCtxDone, dbPosts, dbID, dbI, dbGetLog, dbRet,
                   dbDiags, dbState>>

\* The caller cancels the context of the database Create call.
DbCancel ==
    /\ ~dbCtxDone
    /\ dbPc # "done"
    /\ dbCtxDone' = TRUE
    /\ UNCHANGED <<notDb, dbPc, dbPosts, dbID, dbI, dbSleeps, dbGetLog, dbRet,
                   dbDiags, dbState>>

----------------------------------------------------------------------------
(* The Transport: Client.makeRequest, Get, Post, Put, Delete, handleError. *)
(* A body is a sequence of tokens (words, punctuation, white space), and   *)
(* so is the text of a Transport error.                                    *)

Methods == {"GET", "POST", "PUT", "DELETE"}

\* Values of Client.BaseURL: the default, and one that url.JoinPath rejects
\* ("missing protocol scheme").
BaseURLs == {DefaultBaseURL, "://api.sevalla.com"}

Statuses == {200, 204, 399, 400, 404, 500}

\* The const httpBadRequestThreshold of Get, Post, Put and Delete.
httpBadRequestThreshold == 400

\* The characters strings.TrimSpace removes, as tokens.
Whitespace == {" ", "\n"}

\* A member of the JSON error object: absent, null, a string or a number.
AbsentField == [kind |-> "absent", val |-> ""]

FieldValues(text) ==
    { AbsentField, [kind |-> "null", val |-> ""], [kind |-> "number", val |-> "5"],
      [kind |-> "string", val |-> ""], [kind |-> "string", val |-> text] }

\* Response bodies: a JSON object with "message" and "error" members, or
\* plain text, nothing, the JSON null, a JSON array; each with optional
\* white space before and after.
Bodies ==
    { [kind |-> "object", message |-> m, error |-> e, lead |-> l, trail |-> t] :
        m \in FieldValues("name taken"), e \in FieldValues("conflict"),
        l \in {<<>>, <<" ">>}, t \in {<<>>, <<"\n">>} }
    \cup
    { [kind |-> k, message |-> AbsentField, error |-> AbsentField,
       lead |-> l, trail |-> t] :
        k \in {"text", "empty", "null", "array"},
        l \in {<<>>, <<" ">>}, t \in {<<>>, <<"\n">>} }

\* readable = FALSE: io.ReadAll (or the decoder's read) of resp.Body fails.
Responses == [StatusCode : Statuses, Body : Bodies, readable : BOOLEAN]

NoResponse ==
    [StatusCode |-> 0,
     Body |-> [kind |-> "empty", message |-> AbsentField, error |-> AbsentField,
               lead |-> <<>>, trail |-> <<>>],
     readable |-> FALSE]

NoRequest == [method |-> "", base |-> "", hasResult |-> FALSE]

\* The text of one member of a JSON object.
FieldText(name, f) ==
    CASE f.kind = "absent" -> <<>>
      [] f.kind = "null"   -> <<name, ":", "null">>
      [] f.kind = "number" -> <<name, ":", f.val>>
      [] f.kind = "string" -> <<name, ":", "\"", f.val, "\"">>

\* The bytes of a body, string(body), without the white space around it.
CoreText(b) ==
    CASE b.kind = "text"   -> <<"Bad", " ", "Gateway">>
      [] b.kind = "empty"  -> <<>>
      [] b.kind = "null"   -> <<"null">>
      [] b.kind = "array"  -> <<"[", "]">>
      [] b.kind = "object" ->
           LET m == FieldText("message", b.message)
               e == FieldText("error", b.error)
           IN  <<"{">> \o m \o (IF m # <<>> /\ e # <<>> THEN <<",">> ELSE <<>>)
                     \o e \o <<"}">>

\* string(body): the bytes as received.
RawBody(b) == b.lead \o CoreText(b) \o b.trail

RECURSIVE TrimLeft(_)
TrimLeft(s) ==
    IF s = <<>> \/ Head(s) \notin Whitespace THEN s ELSE TrimLeft(Tail(s))

RECURSIVE TrimRight(_)
TrimRight(s) ==
    IF s = <<>> \/ s[Len(s)] \notin Whitespace
       THEN s
       ELSE TrimRight(SubSeq(s, 1, Len(s) - 1))

\* strings.TrimSpace.
TrimSpace(s) == TrimRight(TrimLeft(s))

\* json.Unmarshal(body, &errorResponse) into struct{Error, Message string}:
\* an error for text that is not JSON, for a JSON value that is not an
\* object or null, and for a member that is not a string or null; a string
\* member is stored, every other leaves the field "".
Unmarshal(b) ==
    LET str(f) == IF f.kind = "string" THEN f.val ELSE ""
    IN  [ok |-> /\ b.kind \in {"object", "null"}
                /\ b.message.kind # "number"
                /\ b.error.kind # "number",
         Message |-> str(b.message),
         Error |-> str(b.error)]

\* fmt.Errorf("HTTP %d: %s", resp.StatusCode, text).
HTTPError(code, text) == <<"HTTP ", ToString(code), ": ">> \o text

\* Mutant: the error member is preferred to the message member.
handleError_ErrorFirst(resp) ==
    IF ~resp.readable
       THEN HTTPError(resp.StatusCode, <<"failed to read error response">>)
       ELSE LET errorResponse == Unmarshal(resp.Body)
            IN  IF ~errorResponse.ok
                   THEN HTTPError(resp.StatusCode, TrimSpace(RawBody(resp.Body)))
                   ELSE IF errorResponse.Error # ""
                   THEN HTTPError(resp.StatusCode, <<errorResponse.Error>>)
                   ELSE IF errorResponse.Message # ""
                   THEN HTTPError(resp.StatusCode, <<errorResponse.Message>>)
                   ELSE HTTPError(resp.StatusCode, TrimSpace(RawBody(resp.Body)))

\* Client.handleError.
handleError(resp) ==
    IF ~resp.readable
       THEN HTTPError(resp.StatusCode, <<"failed to read error response">>)
       ELSE LET errorResponse == Unmarshal(resp.Body)
            IN  IF ~errorResponse.ok
                   THEN HTTPError(resp.StatusCode, TrimSpace(RawBody(resp.Body)))
                   ELSE IF errorResponse.Message # ""
                   THEN HTTPError(resp.StatusCode, <<errorResponse.Message>>)
                   ELSE IF errorResponse.Error # ""
                   THEN HTTPError(resp.StatusCode, <<errorResponse.Error>>)
                   ELSE HTTPError(resp.StatusCode, TrimSpace(RawBody(resp.Body)))

\* json.NewDecoder(resp.Body).Decode(result) for a result struct: an error
\* when the body cannot be read, is not JSON, or is a JSON array.
DecodeResult(resp) ==
    IF ~resp.readable THEN <<"unexpected EOF">>
    ELSE IF resp.Body.kind = "empty" THEN <<"EOF">>
    ELSE IF resp.Body.kind = "text" THEN <<"invalid character">>
    ELSE IF resp.Body.kind = "array" THEN <<"json: cannot unmarshal array">>
    ELSE Nil

\* What Get, Post, Put or Delete returns for the response of makeRequest.
Outcome(req, resp) ==
    IF resp.StatusCode >= httpBadRequestThreshold
       THEN handleError(resp)
       ELSE IF req.method = "GET" \/ (req.method \in {"POST", "PUT"} /\ req.hasResult)
       THEN DecodeResult(resp)
       ELSE Nil

\* The errors c.HTTPClient.Do returns when no response is obtained.
DoErrors ==
    IF trCtxDone THEN {CtxCanceled}
    ELSE { <<"connection refused">>, <<"context deadline exceeded">> }

\* Mutant: a failed call sends the request once more.
CallReturns_Retries(err) ==
    IF err # Nil /\ trExchanges < 2
       THEN /\ trPc' = "sent"
            /\ trExchanges' = trExchanges + 1
            /\ trErr' = trErr
       ELSE /\ trPc' = "done"
            /\ trErr' = err
            /\ trExchanges' = trExchanges

\* "return err" / "return c.handleError(resp)" / "return nil" of
\* Get, Post, Put and Delete: the call ends, nothing more is sent.
CallReturns(err) ==
    /\ trPc' = "done"
    /\ trErr' = err
    /\ trExchanges' = trExchanges

\* A Transport call up to c.HTTPClient.Do(req): makeRequest builds the URL
\* and the request, and only then starts the exchange.
TransportCall ==
    /\ trPc = "idle"
    /\ \E m \in Methods, base \in BaseURLs, hasResult \in BOOLEAN :
          /\ m = "GET" => hasResult
          /\ m = "DELETE" => ~hasResult
          /\ trReq' = [method |-> m, base |-> base, hasResult |-> hasResult]
          /\ IF base = "://api.sevalla.com"
                THEN CallReturns(<<"failed to construct URL: ",
                                   "missing protocol scheme">>)
                ELSE /\ trPc' = "sent"
                     /\ trExchanges' = trExchanges + 1
                     /\ UNCHANGED trErr
    /\ UNCHANGED <<notTr, trCtxDone, trResp>>

\* c.HTTPClient.Do returns, and the method handles what it returned.
DoReturns ==
    /\ trPc = "sent"
    /\ \/ /\ \E e \in DoErrors : CallReturns(e)
          /\ UNCHANGED trResp
       \/ \E resp \in Responses :
             /\ trResp' = resp
             /\ CallReturns(Outcome(trReq, resp))
    /\ UNCHANGED <<notTr, trCtxDone, trReq>>

\* The caller cancels the context of the Transport call.
TransportCancel ==
    /\ ~trCtxDone
    /\ trPc # "done"
    /\ trCtxDone' = TRUE
    /\ UNCHANGED <<notTr, trPc, trReq, trExchanges, trResp, trErr>>

----------------------------------------------------------------------------
(* The Update calls of the Resource Services: the partial request structs  *)
(* and their serialization by json.Marshal in Client.makeRequest.          *)
(* A pointer field holds "nil", a pointer to the zero value ("zero") or a  *)
(* pointer to another value ("value"); the slice field holds "nil", an     *)
(* empty slice ("zero") or a slice with elements ("value").                *)

Tag(field, json, omitempty, kind) ==
    [field |-> field, json |-> json, omitempty |-> omitempty, kind |-> kind]

UpdateApplicationRequest ==
    { Tag("DisplayName", "display_name", TRUE, "pointer"),
      Tag("BuildPath", "build_path", TRUE, "pointer"),
      Tag("BuildType", "build_type", TRUE, "pointer"),
      Tag("DefaultBranch", "default_branch", TRUE, "pointer"),
      Tag("AutoDeploy", "auto_deploy", TRUE, "pointer"),
      Tag("NodeVersion", "node_version", TRUE, "pointer"),
      Tag("DockerfilePath", "dockerfile_path", TRUE, "pointer"),
      Tag("DockerComposeFile", "docker_compose_file", TRUE, "pointer"),
      Tag("PackConfig", "pack_config", TRUE, "pointer"),
      Tag("EnvironmentVariables", "environment_variables", TRUE, "slice"),
      Tag("StartCommand", "start_command", TRUE, "pointer"),
      Tag("InstallCommand", "install_command", TRUE, "pointer") }

UpdateDatabaseRequest ==
    { Tag("DisplayName", "display_name", TRUE, "pointer"),
      Tag("ResourceType", "resource_type", TRUE, "pointer") }

UpdateStaticSiteRequest ==
    { Tag("DisplayName", "display_name", TRUE, "pointer"),
      Tag("AutoDeploy", "auto_deploy", TRUE, "pointer"),
      Tag("DefaultBranch", "default_branch", TRUE, "pointer"),
      Tag("BuildCommand", "build_command", TRUE, "pointer"),
      Tag("NodeVersion", "node_version", TRUE, "pointer"),
      Tag("PublishedDirectory", "published_directory", TRUE, "pointer") }

UpdateSiteRequest == { Tag("DisplayName", "display_name", TRUE, "pointer") }

UpdatePipelineRequest == { Tag("DisplayName", "display_name", TRUE, "pointer") }

UpdateKinds == {"application", "database", "static_site", "site", "pipeline"}

\* The request struct each service's Update serializes.
RequestType(kind) ==
    CASE kind = "application" -> UpdateApplicationRequest
      [] kind = "database"    -> UpdateDatabaseRequest
      [] kind = "static_site" -> UpdateStaticSiteRequest
      [] kind = "site"        -> UpdateSiteRequest
      [] kind = "pipeline"    -> UpdatePipelineRequest

FieldNames(type) == { t.field : t \in type }

\* Fields of one request that are given a value.
MaxFieldsSet == 3

\* The partial requests of a type with at most MaxFieldsSet fields set.
Requests(type) ==
    { r \in [FieldNames(type) -> {"nil", "zero", "value"}] :
        Cardinality({ f \in FieldNames(type) : r[f] # "nil" }) <= MaxFieldsSet }

\* encoding/json's isEmptyValue: a nil pointer; a nil or empty slice.
IsEmptyValue(kind, v) ==
    IF kind = "pointer" THEN v = "nil" ELSE v \in {"nil", "zero"}

\* Mutant: the omitempty option is not honoured.
Marshal_NoOmitEmpty(type, req) ==
    [ k \in { t.json : t \in type } |->
        LET t == CHOOSE t \in type : t.json = k
        IN  IF req[t.field] = "nil" THEN "null" ELSE req[t.field] ]

\* json.Marshal of a request struct: a member for every field, except a
\* field tagged omitempty that holds an empty value; nil is written null.
Marshal(type, req) ==
    LET emitted == { t \in type :
                       ~(t.omitempty /\ IsEmptyValue(t.kind, req[t.field])) }
    IN  [ k \in { t.json : t \in emitted } |->
            LET t == CHOOSE t \in emitted : t.json = k
            IN  IF req[t.field] = "nil" THEN "null" ELSE req[t.field] ]

NoPlan == [f \in {} |-> "null"]

\* <Service>.Update(ctx, id, req): s.client.Put serializes req.
ServiceUpdate ==
    /\ updKind = ""
    /\ \E kind \in UpdateKinds :
          \E req \in Requests(RequestType(kind)) :
             /\ updKind' = kind
             /\ updReq' = req
             /\ updBody' = Marshal(RequestType(kind), req)
    /\ UNCHANGED <<notUpd, updPlan>>

\* StaticSiteResource.Update: every attribute of the plan that is not null
\* is copied behind a pointer, and StaticSites.Update is called.
StaticSiteUpdate ==
    /\ updKind = ""
    /\ \E plan \in [FieldNames(UpdateStaticSiteRequest) -> {"null", "zero", "value"}] :
          LET updateReq == [ f \in FieldNames(UpdateStaticSiteRequest) |->
                               IF plan[f] # "null" THEN plan[f] ELSE "nil" ]
          IN  /\ updPlan' = plan
              /\ updKind' = "static_site"
              /\ updReq' = updateReq
              /\ updBody' = Marshal(UpdateStaticSiteRequest, updateReq)
    /\ UNCHANGED notUpd

----------------------------------------------------------------------------
(* The adapters: Create, Read, Update, Delete and ImportState of           *)
(* ApplicationResource, DatabaseResource and StaticSiteResource, over one  *)
(* entity of the platform.  An attribute holds StringNull, the configured  *)
(* value "cfg", or the value of a platform record.                         *)

AdapterKinds == {"application", "database", "static_site"}

StringNull == "null"

\* One attribute of a resource model: its schema class ("computed",
\* "required", "optional") and what Read and Update do with it given the
\* fetched record: "always" assign the record's value; "orNull" assign it,
\* or null when the record has none; "ifSet" assign it only when the
\* record has one; "never" leave the attribute as it is.
Attr(name, schema, read, update) ==
    [name |-> name, schema |-> schema, read |-> read, update |-> update]

ApplicationResourceModel ==
    { Attr("ID", "computed", "always", "always"),
      Attr("Name", "required", "always", "always"),
      Attr("Description", "optional", "always", "always"),
      Attr("Domain", "optional", "always", "always"),
      Attr("Repository", "optional", "ifSet", "ifSet"),
      Attr("Branch", "optional", "always", "always"),
      Attr("BuildCommand", "optional", "always", "always"),
      Attr("StartCommand", "optional", "always", "always"),
      Attr("Environment", "optional", "ifSet", "ifSet"),
      Attr("Instances", "optional", "ifSet", "ifSet"),
      Attr("Memory", "optional", "ifSet", "ifSet"),
      Attr("CPU", "optional", "ifSet", "ifSet"),
      Attr("Status", "computed", "always", "always"),
      Attr("CreatedAt", "computed", "always", "always"),
      Attr("UpdatedAt", "computed", "always", "always") }

DatabaseResourceModel ==
    { Attr("ID", "computed", "always", "always"),
      Attr("Name", "computed", "always", "always"),
      Attr("DisplayName", "required", "always", "always"),
      Attr("CompanyID", "required", "never", "never"),
      Attr("Location", "required", "never", "never"),
      Attr("ResourceType", "required", "never", "never"),
      Attr("Type", "required", "always", "never"),
      Attr("Version", "required", "always", "never"),
      Attr("DBName", "required", "never", "never"),
      Attr("DBPassword", "required", "never", "never"),
      Attr("DBUser", "optional", "never", "never"),
      Attr("Status", "computed", "always", "always"),
      Attr("InternalHostname", "computed", "orNull", "never"),
      Attr("InternalPort", "computed", "orNull", "never"),
      Attr("ExternalHostname", "computed", "orNull", "never"),
      Attr("ExternalPort", "computed", "orNull", "never") }

StaticSiteResourceModel ==
    { Attr("ID", "computed", "always", "always"),
      Attr("Name", "computed", "always", "always"),
      Attr("DisplayName", "required", "always", "always"),
      Attr("CompanyID", "required", "never", "never"),
      Attr("Status", "computed", "always", "always"),
      Attr("RepoURL", "required", "always", "never"),
      Attr("DefaultBranch", "optional", "always", "always"),
      Attr("AutoDeploy", "optional", "always", "always"),
      Attr("GitType", "computed", "always", "never"),
      Attr("Hostname", "computed", "always", "never"),
      Attr("BuildCommand", "optional", "ifSet", "never"),
      Attr("NodeVersion", "optional", "never", "never"),
      Attr("PublishedDirectory", "optional", "never", "never") }

ResourceModel(kind) ==
    CASE kind = "application" -> ApplicationResourceModel
      [] kind = "database"    -> DatabaseResourceModel
      [] kind = "static_site" -> StaticSiteResourceModel

AttrNames(kind) == { a.name : a \in ResourceModel(kind) }

AttrOf(kind, f) == CHOOSE a \in ResourceModel(kind) : a.name = f

\* The identifier the platform gives the entity.
EntityID == "id_1"

\* The records the platform serves for the entity: ver stands for the
\* values of its members; opt tells whether the optional members (nil
\* pointers, zero counts otherwise) hold a value.
Records == [exists : {TRUE}, ver : {"v1", "v2"}, opt : BOOLEAN]

NoRecord == [exists |-> FALSE, ver |-> "", opt |-> FALSE]

\* The value of a member of a record.
MemberValue(rec, f) == IF f = "ID" THEN EntityID ELSE rec.ver

\* The plans of a kind: every required attribute configured, the optional
\* ones all configured or all null, the computed ones not yet known.
Plans(kind) ==
    { [ f \in AttrNames(kind) |->
          IF AttrOf(kind, f).schema = "required"
             \/ (AttrOf(kind, f).schema = "optional" /\ withOptional)
             THEN "cfg" ELSE StringNull ] : withOptional \in BOOLEAN }

NoResource == [present |-> FALSE, data |-> NoPlan]

NoOp == [op |-> "none", rec |-> NoRecord, err |-> Nil, diag |-> Nil,
         before |-> NoResource]

\* The platform's errors as the Transport returns them.
NotFound == HTTPError(404, <<"not found">>)

ServerError == HTTPError(500, <<"internal error">>)

\* resp.Diagnostics.AddError("Client Error", "Unable to <verb> ..., got error: <err>").
ClientError(verb, err) == <<"Unable to ", verb, ", got error: ">> \o err

\* Mutant: a member the record lacks flips the attribute between null and
\* a value.
Populate_Toggles(kind, handler, data, rec) ==
    [ f \in AttrNames(kind) |->
        LET rule == IF handler = "update" THEN AttrOf(kind, f).update
                                          ELSE AttrOf(kind, f).read
        IN  CASE rule = "always" -> MemberValue(rec, f)
              [] rule = "orNull" -> IF rec.opt THEN MemberValue(rec, f) ELSE StringNull
              [] rule = "ifSet"  -> IF rec.opt THEN MemberValue(rec, f)
                                    ELSE IF data[f] = StringNull THEN "cfg"
                                    ELSE StringNull
              [] rule = "never"  -> data[f] ]

\* The assignments "data.X = ..." a handler makes from the record it got:
\* Create and Read by the attribute's read rule, Update by its update rule.
Populate(kind, handler, data, rec) ==
    [ f \in AttrNames(kind) |->
        LET rule == IF handler = "update" THEN AttrOf(kind, f).update
                                          ELSE AttrOf(kind, f).read
        IN  CASE rule = "always" -> MemberValue(rec, f)
              [] rule = "orNull" -> IF rec.opt THEN MemberValue(rec, f) ELSE StringNull
              [] rule = "ifSet"  -> IF rec.opt THEN MemberValue(rec, f) ELSE data[f]
              [] rule = "never"  -> data[f] ]

\* What the service's Get returns for the stored identifier.
GetOutcomes ==
    IF adRemote.exists
       THEN { [rec |-> adRemote, err |-> Nil], [rec |-> NoRecord, err |-> ServerError] }
       ELSE { [rec |-> NoRecord, err |-> NotFound] }

\* Read after Get returned: an error is added to the diagnostics and the
\* state is not set; otherwise the state is set from the record.
ReadResult(kind, state, out) ==
    IF out.err # Nil
       THEN [state |-> state, diag |-> ClientError("read", out.err)]
       ELSE [state |-> [present |-> TRUE,
                        data |-> Populate(kind, "read", state.data, out.rec)],
             diag |-> Nil]

\* Mutant: a not-found answer to Delete counts as a successful Delete.
DeleteResult_AlreadyDeletedOk(state, err) ==
    IF err # Nil /\ err # NotFound
       THEN [state |-> state, diag |-> ClientError("delete", err)]
       ELSE [state |-> NoResource, diag |-> Nil]

\* Delete after the service's Delete returned: an error is added to the
\* diagnostics and the resource stays in the state; without an error the
\* resource leaves the state.
DeleteResult(state, err) ==
    IF err # Nil
       THEN [state |-> state, diag |-> ClientError("delete", err)]
       ELSE [state |-> NoResource, diag |-> Nil]

\* The handler that ran is remembered (for Read and Delete with the state
\* it found), and the one before it (its operation, record and error).
Remember(op, rec, err, diag) ==
    /\ adPrev' = [adLast EXCEPT !.diag = Nil, !.before = NoResource]
    /\ adLast' = [op |-> op, rec |-> rec, err |-> err, diag |-> diag,
                  before |-> IF op \in {"read", "delete"} THEN adState
                                                          ELSE NoResource]

\* <Resource>.Create: the plan is read, the service's Create is called and
\* the state is set from the plan and the record returned.  One lifetime of
\* one resource is followed: Create is called once.
AdapterCreate ==
    /\ ~adState.present
    /\ ~adRemote.exists
    /\ adKind = ""
    /\ \E kind \in AdapterKinds :
          /\ adKind' = kind
          /\ \E plan \in Plans(kind) :
                \/ \E rec \in Records :
                      LET data == Populate(kind, "create", plan, rec)
                      IN  /\ adRemote' = rec
                          /\ adState' = [present |-> TRUE, data |-> data]
                          /\ adCreated' = [set |-> TRUE, data |-> data, rec |-> rec]
                          /\ Remember("create", rec, Nil, Nil)
                \/ /\ Remember("create", NoRecord, ServerError,
                               ClientError("create", ServerError))
                   /\ UNCHANGED <<adRemote, adState, adCreated>>
    /\ UNCHANGED notAd

\* <Resource>.Read.
AdapterRead ==
    /\ adState.present
    /\ \E out \in GetOutcomes :
          LET res == ReadResult(adKind, adState, out)
          IN  /\ adState' = res.state
              /\ Remember("read", out.rec, out.err, res.diag)
    /\ UNCHANGED <<notAd, adKind, adRemote, adCreated>>

\* <Resource>.Update: the plan is read (computed attributes as in the prior
\* state), the service's Update is called and the state is set.
AdapterUpdate ==
    /\ adState.present
    /\ \E plan \in Plans(adKind) :
          LET data == [ f \in AttrNames(adKind) |->
                          IF AttrOf(adKind, f).schema = "computed"
                             THEN adState.data[f] ELSE plan[f] ]
          IN  IF adRemote.exists
                 THEN \/ \E rec \in { r \in Records : r.opt = adRemote.opt } :
                            /\ adRemote' = rec
                            /\ adState' = [present |-> TRUE,
                                           data |-> Populate(adKind, "update", data, rec)]
                            /\ Remember("update", rec, Nil, Nil)
                      \/ /\ Remember("update", NoRecord, ServerError,
                                     ClientError("update", ServerError))
                         /\ UNCHANGED <<adRemote, adState>>
                 ELSE /\ Remember("update", NoRecord, NotFound,
                                  ClientError("update", NotFound))
                      /\ UNCHANGED <<adRemote, adState>>
    /\ UNCHANGED <<notAd, adKind, adCreated>>

\* <Resource>.Delete.
AdapterDelete ==
    /\ adState.present
    /\ \E err \in (IF adRemote.exists THEN {Nil, ServerError} ELSE {NotFound}) :
          LET res == DeleteResult(adState, err)
          IN  /\ adState' = res.state
              /\ adRemote' = IF err = Nil THEN NoRecord ELSE adRemote
              /\ Remember("delete", NoRecord, err, res.diag)
    /\ UNCHANGED <<notAd, adKind, adCreated>>

\* <Resource>.ImportState: resource.ImportStatePassthroughID puts the given
\* identifier in a state that is otherwise null.
AdapterImport ==
    /\ adKind # ""
    /\ adState' = [present |-> TRUE,
                   data |-> [ f \in AttrNames(adKind) |->
                                IF f = "ID" THEN EntityID ELSE StringNull ]]
    /\ Remember("import", NoRecord, Nil, Nil)
    /\ UNCHANGED <<notAd, adKind, adRemote, adCreated>>

\* The entity is changed on the platform by someone else.
RemoteChange ==
    /\ adRemote.exists
    /\ \E rec \in Records \ {adRemote} : adRemote' = rec
    /\ UNCHANGED <<notAd, adKind, adState, adCreated, adPrev, adLast>>

\* The entity is deleted on the platform by someone else.
RemoteDelete ==
    /\ adRemote.exists
    /\ adRemote' = NoRecord
    /\ UNCHANGED <<notAd, adKind, adState, adCreated, adPrev, adLast>>

----------------------------------------------------------------------------
(* SevallaProvider.Configure and the Configure of resources and data       *)
(* sources.                                                                *)

\* DefaultTimeout, in seconds.
DefaultTimeout == 30

\* Values of the SEVALLA_TOKEN environment variable ("" when unset).
EnvTokens == {"", "tok_env"}

\* Values of the SEVALLA_BASE_URL environment variable ("" when unset),
\* which the provider's documentation names and Configure does not read.
EnvBaseURLs == {"", "https://env.sevalla.test"}

\* Values of the token attribute of the provider block.
ConfigTokens == {StringNull, "", "tok_cfg"}

\* Values of the base_url attribute of the provider block.
ConfigBaseURLs == {StringNull, "", "https://staging.sevalla.test"}

\* The constructors listed by SevallaProvider.Resources and DataSources.
ResourceTypes == {"application", "database", "static_site", "object_storage", "pipeline"}

NoClient == [Token |-> "", BaseURL |-> "", Timeout |-> 0]

\* resp.ResourceData / resp.DataSourceData left nil.
NoProviderData == [set |-> FALSE, Client |-> NoClient]

NoInput == [env |-> "", envBase |-> "", token |-> StringNull, base |-> StringNull]

\* sevallaapi.NewClient(config).
NewClient(config) ==
    [Token |-> config.Token,
     BaseURL |-> IF config.BaseURL = "" THEN DefaultBaseURL ELSE config.BaseURL,
     Timeout |-> DefaultTimeout]

\* Mutant: the check of the token is missing.
TokenMissing_Never(token) == FALSE

\* "if token == \"\"".
TokenMissing(token) == token = ""

\* SevallaProvider.Configure.
ProviderConfigure ==
    /\ ~cfgDone
    /\ cfgDone' = TRUE
    /\ \E env \in EnvTokens, envBase \in EnvBaseURLs,
          tok \in ConfigTokens, base \in ConfigBaseURLs :
          LET token == IF tok # StringNull THEN tok ELSE env
              baseURL == IF base # StringNull THEN base ELSE DefaultBaseURL
              client == NewClient([Token |-> token, BaseURL |-> baseURL])
          IN  /\ cfgInput' = [env |-> env, envBase |-> envBase,
                               token |-> tok, base |-> base]
              /\ IF TokenMissing(token)
                    THEN /\ cfgDiags' = Append(cfgDiags, "Unable to find token")
                         /\ UNCHANGED <<resourceData, dataSourceData>>
                    ELSE /\ resourceData' = [set |-> TRUE, Client |-> client]
                         /\ dataSourceData' = [set |-> TRUE, Client |-> client]
                         /\ UNCHANGED cfgDiags
    /\ UNCHANGED <<notCfg, resourceClient, dataSourceClient>>

\* <Resource>.Configure, given resp.ResourceData as req.ProviderData.
ResourceConfigure ==
    /\ \E r \in ResourceTypes :
          IF ~resourceData.set
             THEN UNCHANGED resourceClient
             ELSE resourceClient' = [resourceClient EXCEPT ![r] = resourceData.Client]
    /\ UNCHANGED <<notCfg, cfgDone, cfgInput, cfgDiags, resourceData,
                   dataSourceData, dataSourceClient>>

\* <DataSource>.Configure, given resp.DataSourceData as req.ProviderData.
DataSourceConfigure ==
    /\ \E d \in ResourceTypes :
          IF ~dataSourceData.set
             THEN UNCHANGED dataSourceClient
             ELSE dataSourceClient' = [dataSourceClient EXCEPT ![d] = dataSourceData.Client]
    /\ UNCHANGED <<notCfg, cfgDone, cfgInput, cfgDiags, resourceData,
                   dataSourceData, resourceClient>>

----------------------------------------------------------------------------

InitSite ==
    /\ pc = "init"
    /\ ctxDone = FALSE
    /\ now = 0
    /\ tickReady = FALSE
    /\ timeoutReady = FALSE
    /\ posts = 0
    /\ operationID = ""
    /\ polls = 0
    /\ pollAt = 0
    /\ fetchMax = 0
    /\ statuses = <<>>
    /\ lastOp = NoOperation
    /\ pollerResult = NotReturned
    /\ returnAt = -1
    /\ cancelAt = -1
    /\ cancelMidWait = FALSE
    /\ siteGets = <<>>
    /\ diags = <<>>
    /\ tfState = NoState

InitDb ==
    /\ dbPc = "init"
    /\ dbCtxDone = FALSE
    /\ dbPosts = 0
    /\ dbID = ""
    /\ dbI = 0
    /\ dbSleeps = 0
    /\ dbGetLog = <<>>
    /\ dbRet = DbNotReturned
    /\ dbDiags = <<>>
    /\ dbState = DbNoState

InitTr ==
    /\ trPc = "idle"
    /\ trCtxDone = FALSE
    /\ trReq = NoRequest
    /\ trExchanges = 0
    /\ trResp = NoResponse
    /\ trErr = Nil

InitUpd ==
    /\ updKind = ""
    /\ updPlan = NoPlan
    /\ updReq = NoPlan
    /\ updBody = NoPlan

InitAd ==
    /\ adKind = ""
    /\ adState = NoResource
    /\ adRemote = NoRecord
    /\ adCreated = [set |-> FALSE, data |-> NoPlan, rec |-> NoRecord]
    /\ adPrev = NoOp
    /\ adLast = NoOp

InitCfg ==
    /\ cfgDone = FALSE
    /\ cfgInput = NoInput
    /\ cfgDiags = <<>>
    /\ resourceData = NoProviderData
    /\ dataSourceData = NoProviderData
    /\ resourceClient = [r \in ResourceTypes |-> NoClient]
    /\ dataSourceClient = [d \in ResourceTypes |-> NoClient]

----------------------------------------------------------------------------
(* Service calls made at the same time through one Client
   (client.go, makeRequest and the verbs; services.go, ApplicationService). *)

\* The goroutines in which Terraform runs adapter handlers at the same time.
Goroutines == {1, 2}

ApplicationIDs == {"app_1", "app_2", "app_3"}

\* ApplicationService.Get, Update and Delete.
ServiceCalls == {"Get", "Update", "Delete"}

\* The verb each service call passes to makeRequest.
Verb(call) ==
    CASE call = "Get" -> "GET"
      [] call = "Update" -> "PUT"
      [] call = "Delete" -> "DELETE"

\* The platform's record of one application: none, or its contents.
NoApplication == "none"

ApplicationRecords == {"v1", "v2"}

\* The client NewClient returned to the provider.
SharedClient == NewClient([Token |-> "cfg-token", BaseURL |-> ""])

\* The request makeRequest builds from the client's fields and its own
\* arguments: url.JoinPath(c.BaseURL, path), the Authorization header.
makeRequest(client, call, id) ==
    [method |-> Verb(call),
     url |-> <<client.BaseURL, "/applications/", id>>,
     auth |-> <<"Bearer ", client.Token>>,
     body |-> IF call = "Update" THEN "v2" ELSE NoApplication]

\* Mutant: makeRequest leaves its path in the client's base URL.
ClientAfterRequest_KeepsPath(client, req) ==
    [client EXCEPT !.BaseURL = "https://api.sevalla.com/v2/applications"]

\* The client after makeRequest: no field of c is assigned.
ClientAfterRequest(client, req) == client

\* What the platform does with a request for an application whose record is
\* app: the status it answers, the record it answers with, the record after.
Serve(app, req) ==
    IF req.url[1] # DefaultBaseURL \/ req.auth # <<"Bearer ", "cfg-token">>
    THEN [status |-> 401, body |-> NoApplication, after |-> app]
    ELSE IF app = NoApplication
    THEN [status |-> 404, body |-> NoApplication, after |-> app]
    ELSE CASE req.method = "GET" ->
                [status |-> 200, body |-> app, after |-> app]
           [] req.method = "PUT" ->
                [status |-> 200, body |-> req.body, after |-> req.body]
           [] req.method = "DELETE" ->
                [status |-> 204, body |-> NoApplication, after |-> NoApplication]

\* What Client.Get/Put/Delete return for a response: handleError's error
\* from status 400 on, the decoded record otherwise.
VerbResult(answer) ==
    IF answer.status >= httpBadRequestThreshold
    THEN [err |-> HTTPError(answer.status, <<>>), app |-> NoApplication]
    ELSE [err |-> Nil, app |-> answer.body]

NoResult == [err |-> Nil, app |-> NoApplication]

IdleCall ==
    [pc |-> "idle", call |-> "", id |-> "", before |-> NoApplication,
     req |-> [method |-> "", url |-> <<>>, auth |-> <<>>, body |-> NoApplication],
     answer |-> [status |-> 0, body |-> NoApplication, after |-> NoApplication],
     result |-> NoResult]

\* A handler in goroutine g calls a service method for an identifier no
\* other running call is about; makeRequest builds the request and
\* c.HTTPClient.Do sends it.
ServiceCall(g) ==
    /\ ccCalls[g].pc \in {"idle", "done"}
    /\ \E call \in ServiceCalls, id \in ApplicationIDs :
          /\ \A h \in Goroutines \ {g} :
                ccCalls[h].pc \in {"sent", "answered"} => ccCalls[h].id # id
          /\ LET req == makeRequest(ccClient, call, id) IN
             /\ ccCalls' = [ccCalls EXCEPT ![g] =
                    [IdleCall EXCEPT !.pc = "sent", !.call = call, !.id = id,
                                     !.before = ccRemote[id], !.req = req]]
             /\ ccClient' = ClientAfterRequest(ccClient, req)
    /\ UNCHANGED ccRemote
    /\ UNCHANGED notCc

\* The platform handles the request of goroutine g.
PlatformServes(g) ==
    /\ ccCalls[g].pc = "sent"
    /\ LET id == ccCalls[g].req.url[3]
           answer == Serve(ccRemote[id], ccCalls[g].req) IN
       /\ ccRemote' = [ccRemote EXCEPT ![id] = answer.after]
       /\ ccCalls' = [ccCalls EXCEPT ![g].pc = "answered", ![g].answer = answer]
    /\ UNCHANGED ccClient
    /\ UNCHANGED notCc

\* Do returns the response and the verb returns to the handler.
VerbReturns(g) ==
    /\ ccCalls[g].pc = "answered"
    /\ ccCalls' = [ccCalls EXCEPT ![g].pc = "done",
                                  ![g].result = VerbResult(ccCalls[g].answer)]
    /\ UNCHANGED <<ccClient, ccRemote>>
    /\ UNCHANGED notCc

\* The platform's application changes by other hands while no call is
\* running on it.
ApplicationChanges ==
    /\ \E id \in ApplicationIDs, app \in ApplicationRecords \cup {NoApplication} :
          /\ \A g \in Goroutines :
                ccCalls[g].pc \in {"sent", "answered"} => ccCalls[g].id # id
          /\ ccRemote[id] # app
          /\ ccRemote' = [ccRemote EXCEPT ![id] = app]
    /\ UNCHANGED <<ccClient, ccCalls>>
    /\ UNCHANGED notCc

InitCc ==
    /\ ccClient = SharedClient
    /\ ccCalls = [g \in Goroutines |-> IdleCall]
    /\ ccRemote = [id \in ApplicationIDs |-> "v1"]

----------------------------------------------------------------------------
(* ProviderCache and the cached reads of PerformanceOptimizedClient
   (part_006); time is counted in minutes. *)

\* The ttl GetApplicationCached passes to Set: 5*time.Minute.
CacheTTL == 5

CachedIDs == {"app_1", "app_2"}

\* cacheKey := "application:" + id
CacheKey(resourceType, id) == <<resourceType, ":", id>>

CacheKeys == { CacheKey("application", id) : id \in CachedIDs }

\* The versions of an application's record are numbered from this one;
\* each update makes the next one.
FirstVersion == 1

\* No entry under a key of the map.
NoEntry == [exists |-> FALSE, Data |-> 0, Timestamp |-> 0, TTL |-> 0]

\* Mutant: entries never expire.
IsExpired_Never(entry, clock) == FALSE

\* CacheEntry.IsExpired: time.Since(c.Timestamp) > c.TTL.
IsExpired(entry, clock) == clock - entry.Timestamp > entry.TTL

\* ProviderCache.Get: the value and whether it was found.
CacheGet(map, key, clock) ==
    IF ~map[key].exists \/ IsExpired(map[key], clock)
    THEN [found |-> FALSE, Data |-> 0]
    ELSE [found |-> TRUE, Data |-> map[key].Data]

\* ProviderCache.Set.
CacheSet(map, key, data, ttl, clock) ==
    [map EXCEPT ![key] =
        [exists |-> TRUE, Data |-> data, Timestamp |-> clock, TTL |-> ttl]]

NoCacheCall ==
    [op |-> "none", id |-> "", found |-> FALSE, entry |-> NoEntry, at |-> 0,
     data |-> 0, err |-> Nil]

\* GetApplicationCached: the cached value when Get finds one; otherwise the
\* rate limiter's Wait, ApplicationService.Get and, when both succeed, Set.
GetApplicationCached ==
    /\ \E id \in CachedIDs :
          LET key == CacheKey("application", id)
              got == CacheGet(cache, key, cacheNow)
              call == [NoCacheCall EXCEPT !.op = "GetApplicationCached",
                          !.id = id, !.found = got.found, !.entry = cache[key],
                          !.at = cacheNow]
          IN IF got.found
             THEN /\ cacheLast' = [call EXCEPT !.data = got.Data]
                  /\ UNCHANGED cache
             ELSE \E waitErr \in {Nil, CtxCanceled}, getErr \in {Nil, ServerError} :
                     IF waitErr # Nil
                     THEN /\ cacheLast' = [call EXCEPT !.err = waitErr]
                          /\ UNCHANGED cache
                     ELSE IF getErr # Nil
                     THEN /\ cacheLast' = [call EXCEPT !.err = getErr]
                          /\ UNCHANGED cache
                     ELSE /\ cacheLast' = [call EXCEPT !.data = cacheRemote[id]]
                          /\ cache' = CacheSet(cache, key, cacheRemote[id],
                                               CacheTTL, cacheNow)
    /\ UNCHANGED <<cacheNow, cacheRemote>>
    /\ UNCHANGED notCache

\* ApplicationService.Update through the API client, as the application
\* adapter's Update calls it: the platform stores the next version (or the
\* call fails); the cache is not touched.
ApplicationUpdate ==
    /\ \E id \in CachedIDs, err \in {Nil, ServerError} :
          /\ cacheRemote[id] < FirstVersion + MaxUpdates
          /\ cacheRemote' =
                IF err = Nil THEN [cacheRemote EXCEPT ![id] = @ + 1]
                ELSE cacheRemote
          /\ cacheLast' = [NoCacheCall EXCEPT !.op = "Update", !.id = id,
                              !.at = cacheNow, !.err = err]
    /\ UNCHANGED <<cache, cacheNow>>
    /\ UNCHANGED notCache

\* InvalidateCache(resourceType, id): delete(poc.cache.cache, cacheKey).
InvalidateCache ==
    /\ \E id \in CachedIDs :
          /\ cache' = [cache EXCEPT ![CacheKey("application", id)] = NoEntry]
          /\ cacheLast' = [NoCacheCall EXCEPT !.op = "InvalidateCache",
                              !.id = id, !.at = cacheNow]
    /\ UNCHANGED <<cacheNow, cacheRemote>>
    /\ UNCHANGED notCache

\* ClearCache: ProviderCache.Clear replaces the map with an empty one.
ClearCache ==
    /\ cache' = [k \in CacheKeys |-> NoEntry]
    /\ cacheLast' = [NoCacheCall EXCEPT !.op = "ClearCache", !.at = cacheNow]
    /\ UNCHANGED <<cacheNow, cacheRemote>>
    /\ UNCHANGED notCache

\* ProviderCache.ClearExpired: deletes the entries that are expired.
ClearExpired ==
    /\ cache' = [k \in CacheKeys |->
                    IF cache[k].exists /\ IsExpired(cache[k], cacheNow)
                    THEN NoEntry ELSE cache[k]]
    /\ cacheLast' = [NoCacheCall EXCEPT !.op = "ClearExpired", !.at = cacheNow]
    /\ UNCHANGED <<cacheNow, cacheRemote>>
    /\ UNCHANGED notCache

\* A minute passes.
CacheClock ==
    /\ cacheNow < MaxClock
    /\ cacheNow' = cacheNow + 1
    /\ UNCHANGED <<cache, cacheRemote, cacheLast>>
    /\ UNCHANGED notCache

InitCache ==
    /\ cache = [k \in CacheKeys |-> NoEntry]
    /\ cacheNow = 0
    /\ cacheRemote = [id \in CachedIDs |-> FirstVersion]
    /\ cacheLast = NoCacheCall

----------------------------------------------------------------------------
(* BatchProcessor (part_006): Submit, Wait, processBatches, executeBatch. *)

\* The *BatchOperation values callers hold; each has its own Done channel.
BatchOperations == {"opA", "opB", "opC"}

\* op.ID: opA and opB carry the same id.
OperationIDOf(op) == IF op = "opC" THEN "id_2" ELSE "id_1"

BatchIDs == { OperationIDOf(op) : op \in BatchOperations }

\* op.Operation: a type executeBatch has a case for, and one it has not.
OperationType(op) == IF op = "opC" THEN "custom" ELSE "get_application"

OperationTypes == { OperationType(op) : op \in BatchOperations }

\* make(chan *BatchOperation, batchSize*2)
ChannelCapacity == BatchSize * 2

NoBatchOperation == "nil"

\* The operations of one type, in the order of the batch.
Group(batch, type) == SelectSeq(batch, LAMBDA op : OperationType(op) = type)

\* The orders in which "range operationGroups" may visit the groups.
GroupOrders ==
    { order \in [1..Cardinality(OperationTypes) -> OperationTypes] :
         \A i, j \in DOMAIN order : i # j => order[i] # order[j] }

RECURSIVE Flatten(_, _)
Flatten(batch, order) ==
    IF order = <<>> THEN <<>>
    ELSE Group(batch, Head(order)) \o Flatten(batch, Tail(order))

\* executeIndividualOperation on each operation in turn: close(op.Done);
\* closing a closed channel panics and ends the run.
RECURSIVE CloseEach(_, _)
CloseEach(ops, closes) ==
    IF ops = <<>> THEN [closes |-> closes, panic |-> FALSE]
    ELSE IF closes[Head(ops)] >= 1
    THEN [closes |-> [closes EXCEPT ![Head(ops)] = @ + 1], panic |-> TRUE]
    ELSE CloseEach(Tail(ops), [closes EXCEPT ![Head(ops)] = @ + 1])

\* executeBatch: group by type, run the groups in map order.
executeBatch(batch, closes) ==
    { CloseEach(Flatten(batch, order), closes) : order \in GroupOrders }

\* Submit, first half: bp.results[op.ID] = op under the mutex.
Submit(op) ==
    /\ ~bpPanic
    /\ bpSubmits < MaxSubmits
    /\ bpSubmits' = bpSubmits + 1
    /\ bpResults' = [bpResults EXCEPT ![OperationIDOf(op)] = op]
    /\ bpSending' = [bpSending EXCEPT ![op] = @ + 1]
    /\ UNCHANGED <<bpOperations, bpBatch, bpTick, bpCloses, bpPanic, bpWait>>
    /\ UNCHANGED notBp

\* Submit, second half: bp.operations <- op, once the channel has room.
SubmitSend(op) ==
    /\ ~bpPanic
    /\ bpSending[op] > 0
    /\ Len(bpOperations) < ChannelCapacity
    /\ bpOperations' = Append(bpOperations, op)
    /\ bpSending' = [bpSending EXCEPT ![op] = @ - 1]
    /\ UNCHANGED <<bpResults, bpSubmits, bpBatch, bpTick, bpCloses, bpPanic,
                   bpWait>>
    /\ UNCHANGED notBp

\* processBatches, case op := <-bp.operations.
ProcessOperation ==
    /\ ~bpPanic
    /\ bpOperations # <<>>
    /\ bpOperations' = Tail(bpOperations)
    /\ LET batch == Append(bpBatch, Head(bpOperations)) IN
       IF Len(batch) >= BatchSize
       THEN \E out \in executeBatch(batch, bpCloses) :
               /\ bpCloses' = out.closes
               /\ bpPanic' = out.panic
               /\ bpBatch' = <<>>
       ELSE /\ bpBatch' = batch
            /\ UNCHANGED <<bpCloses, bpPanic>>
    /\ UNCHANGED <<bpResults, bpSending, bpSubmits, bpTick, bpWait>>
    /\ UNCHANGED notBp

\* processBatches, case <-ticker.C.
ProcessTick ==
    /\ ~bpPanic
    /\ bpTick
    /\ bpTick' = FALSE
    /\ IF Len(bpBatch) > 0
       THEN \E out \in executeBatch(bpBatch, bpCloses) :
               /\ bpCloses' = out.closes
               /\ bpPanic' = out.panic
               /\ bpBatch' = <<>>
       ELSE UNCHANGED <<bpBatch, bpCloses, bpPanic>>
    /\ UNCHANGED <<bpOperations, bpResults, bpSending, bpSubmits, bpWait>>
    /\ UNCHANGED notBp

\* The ticker puts a tick in ticker.C every batchTime (dropped if one waits).
BatchTicker ==
    /\ ~bpPanic
    /\ ~bpTick
    /\ bpTick' = TRUE
    /\ UNCHANGED <<bpOperations, bpResults, bpSending, bpSubmits, bpBatch,
                   bpCloses, bpPanic, bpWait>>
    /\ UNCHANGED notBp

\* Wait(id), first half: looks the id up; returns nil, nil if it is unknown.
WaitCall(id) ==
    /\ ~bpPanic
    /\ bpWait[id].pc = "idle"
    /\ bpWait' = [bpWait EXCEPT ![id] =
          IF bpResults[id] = NoBatchOperation
          THEN [pc |-> "returned", op |-> NoBatchOperation]
          ELSE [pc |-> "blocked", op |-> bpResults[id]]]
    /\ UNCHANGED <<bpOperations, bpResults, bpSending, bpSubmits, bpBatch,
                   bpTick, bpCloses, bpPanic>>
    /\ UNCHANGED notBp

\* Wait(id), second half: <-op.Done returns once the channel is closed.
WaitReturns(id) ==
    /\ ~bpPanic
    /\ bpWait[id].pc = "blocked"
    /\ bpCloses[bpWait[id].op] >= 1
    /\ bpWait' = [bpWait EXCEPT ![id].pc = "returned"]
    /\ UNCHANGED <<bpOperations, bpResults, bpSending, bpSubmits, bpBatch,
                   bpTick, bpCloses, bpPanic>>
    /\ UNCHANGED notBp

InitBp ==
    /\ bpOperations = <<>>
    /\ bpResults = [id \in BatchIDs |-> NoBatchOperation]
    /\ bpSending = [op \in BatchOperations |-> 0]
    /\ bpSubmits = 0
    /\ bpBatch = <<>>
    /\ bpTick = FALSE
    /\ bpCloses = [op \in BatchOperations |-> 0]
    /\ bpPanic = FALSE
    /\ bpWait = [id \in BatchIDs |-> [pc |-> "idle", op |-> NoBatchOperation]]

----------------------------------------------------------------------------
(* RateLimiter (part_006): NewRateLimiter, Wait, refillTokens, Stop. *)

\* Mutant: a tick puts two tokens in the bucket.
Refilled_TwoTokens(tokens) ==
    IF tokens + 2 <= RateLimit THEN tokens + 2 ELSE RateLimit

\* refillTokens' select: one token is sent unless the bucket is full.
Refilled(tokens) == IF tokens < RateLimit THEN tokens + 1 ELSE tokens

\* The ticker fires after another interval; a tick nobody took is dropped.
RateLimiterTicker ==
    /\ ~rlStopped
    /\ rlTicks < MaxTicks
    /\ rlTicks' = rlTicks + 1
    /\ rlTickReady' = TRUE
    /\ UNCHANGED <<rlTokens, rlStopped, rlGranted, rlRefused>>
    /\ UNCHANGED notRl

\* refillTokens: one turn of "for range rl.ticker.C".
RefillTokens ==
    /\ rlTickReady
    /\ rlTickReady' = FALSE
    /\ rlTokens' = Refilled(rlTokens)
    /\ UNCHANGED <<rlTicks, rlStopped, rlGranted, rlRefused>>
    /\ UNCHANGED notRl

\* Wait, case <-rl.tokens: a token is taken and Wait returns nil.
WaitToken ==
    /\ rlGranted + rlRefused < MaxWaits
    /\ rlTokens > 0
    /\ rlTokens' = rlTokens - 1
    /\ rlGranted' = rlGranted + 1
    /\ UNCHANGED <<rlTickReady, rlTicks, rlStopped, rlRefused>>
    /\ UNCHANGED notRl

\* Wait, case <-ctx.Done(): the caller's context is done (whether or not
\* a token is there) and Wait returns ctx.Err().
WaitCtxDone ==
    /\ rlGranted + rlRefused < MaxWaits
    /\ rlRefused' = rlRefused + 1
    /\ UNCHANGED <<rlTokens, rlTickReady, rlTicks, rlStopped, rlGranted>>
    /\ UNCHANGED notRl

\* Stop: rl.ticker.Stop(); no tick fires afterwards.
RateLimiterStop ==
    /\ ~rlStopped
    /\ rlStopped' = TRUE
    /\ UNCHANGED <<rlTokens, rlTickReady, rlTicks, rlGranted, rlRefused>>
    /\ UNCHANGED notRl

\* NewRateLimiter: the bucket is filled with rateLimit tokens.
InitRl ==
    /\ rlTokens = RateLimit
    /\ rlTickReady = FALSE
    /\ rlTicks = 0
    /\ rlStopped = FALSE
    /\ rlGranted = 0
    /\ rlRefused = 0

Init ==
    /\ InitSite /\ InitDb /\ InitTr /\ InitUpd /\ InitAd
    /\ InitCfg /\ InitCc /\ InitCache /\ InitBp /\ InitRl

Next ==
    \/ SitesCreate
    \/ SelectTick
    \/ SelectTimeout
    \/ SelectCtxDone
    \/ SelectBlock
    \/ GetStatusReturns
    \/ AdvanceTime
    \/ Cancel
    \/ SitesGet

Spec == Init /\ [][Next]_vars

NextDb ==
    \/ DatabasesPost
    \/ DatabasesGet
    \/ DatabasesSleep
    \/ DbCancel

SpecDb == Init /\ [][NextDb]_vars

NextTr ==
    \/ TransportCall
    \/ DoReturns
    \/ TransportCancel

SpecTr == Init /\ [][NextTr]_vars

NextUpd ==
    \/ ServiceUpdate
    \/ StaticSiteUpdate

SpecUpd == Init /\ [][NextUpd]_vars

NextAd ==
    \/ AdapterCreate
    \/ AdapterRead
    \/ AdapterUpdate
    \/ AdapterDelete
    \/ AdapterImport
    \/ RemoteChange
    \/ RemoteDelete

SpecAd == Init /\ [][NextAd]_vars

NextCfg ==
    \/ ProviderConfigure
    \/ ResourceConfigure
    \/ DataSourceConfigure

SpecCfg == Init /\ [][NextCfg]_vars

NextCc ==
    \/ \E g \in Goroutines : ServiceCall(g)
    \/ \E g \in Goroutines : PlatformServes(g)
    \/ \E g \in Goroutines : VerbReturns(g)
    \/ ApplicationChanges

SpecCc == Init /\ [][NextCc]_vars

NextCache ==
    \/ GetApplicationCached
    \/ ApplicationUpdate
    \/ InvalidateCache
    \/ ClearCache
    \/ ClearExpired
    \/ CacheClock

SpecCache == Init /\ [][NextCache]_vars

NextBp ==
    \/ \E op \in BatchOperations : Submit(op)
    \/ \E op \in BatchOperations : SubmitSend(op)
    \/ ProcessOperation
    \/ ProcessTick
    \/ BatchTicker
    \/ \E id \in BatchIDs : WaitCall(id)
    \/ \E id \in BatchIDs : WaitReturns(id)

SpecBp == Init /\ [][NextBp]_vars

\* The goroutines keep running: the ticker fires every batchTime, select
\* takes a ready case (a waiting tick stays ready until it is taken), and
\* a blocked send or receive proceeds once it can.
FairBp ==
    /\ WF_vars(BatchTicker)
    /\ WF_vars(ProcessTick)
    /\ WF_vars(ProcessOperation)
    /\ \A op \in BatchOperations : WF_vars(SubmitSend(op))
    /\ \A id \in BatchIDs : WF_vars(WaitReturns(id))

SpecBpFair == SpecBp /\ FairBp

NextRl ==
    \/ RateLimiterTicker
    \/ RefillTokens
    \/ WaitToken
    \/ WaitCtxDone
    \/ RateLimiterStop

SpecRl == Init /\ [][NextRl]_vars

----------------------------------------------------------------------------
(* Properties of the operation poller and of SiteResource.Create. *)

Terminal(status) == status \in {"completed", "failed"}

Returned(res) == [returned |-> TRUE, id |-> res.id, err |-> res.err]

\* The error text holds the fragment s.
Contains(err, s) == \E i \in 1..Len(err) : err[i] = s

\* C1: when the successive GetStatus responses are pending, running and then
\* completed with a resource id set, waitForOperation returns exactly that
\* resource id and no error.
C1_PendingRunningCompleted ==
    (statuses = <<"pending", "running", "completed">> /\ lastOp.ResourceID # "")
        => pollerResult = Returned(Ret(lastOp.ResourceID, Nil))

C1_Witness ==
    /\ statuses = <<"pending", "running", "completed">>
    /\ lastOp.ResourceID = "site_42"
    /\ pollerResult = Returned(Ret("site_42", Nil))

\* C2: whenever waitForOperation returns success, the identifier it returns
\* is non-empty.
C2_SuccessHasIdentifier ==
    (pollerResult.returned /\ pollerResult.err = Nil) => pollerResult.id # ""

\* C3: on a completed status waitForOperation returns the explicit resource
\* id whenever it is non-empty, and the site_id of the payload is what it
\* returns only when the explicit field is empty.
C3_ResourceIdPreferred ==
    (pollerResult.returned /\ lastOp.Status = "completed") =>
        /\ lastOp.ResourceID # "" => pollerResult = Returned(Ret(lastOp.ResourceID, Nil))
        /\ (pollerResult.err = Nil /\ lastOp.ResourceID = "") =>
              /\ lastOp.Data.kind = "map" /\ lastOp.Data.site_id = "string"
              /\ pollerResult.id = lastOp.Data.val

C3_Witness ==
    /\ lastOp.Status = "completed"
    /\ lastOp.ResourceID = "site_42"
    /\ lastOp.Data.site_id = "string" /\ lastOp.Data.val = "site_7"
    /\ pollerResult = Returned(Ret("site_42", Nil))

\* C4: when GetStatus reports failed, waitForOperation returns an error and no
\* resource id; the error holds the attached error detail when there is one
\* and is the "failed with unknown error" message otherwise.
C4_FailedIsError ==
    lastOp.Status = "failed" =>
        /\ pollerResult.returned
        /\ pollerResult.id = ""
        /\ pollerResult.err # Nil
        /\ lastOp.Error # <<>> => Contains(pollerResult.err, lastOp.Error[1])
        /\ lastOp.Error = <<>> =>
              pollerResult.err = <<"operation failed with unknown error">>

C4_Witness ==
    /\ lastOp.Status = "failed"
    /\ lastOp.Error = <<"quota exceeded">>
    /\ pollerResult.returned
    /\ Contains(pollerResult.err, "quota exceeded")

IsStatusFetchError(err) ==
    err # Nil /\ err[1] = "failed to get operation status: "

\* C5: if no status reported before the deadline is completed or failed (no
\* status fetch failing, the context not cancelled), what waitForOperation
\* returns is the timeout error; and after it has returned no GetStatus call
\* is issued.
C5_DeadlineGivesTimeout ==
    /\ []( ( /\ pollerResult.returned
             /\ ~ctxDone
             /\ ~IsStatusFetchError(pollerResult.err)
             /\ Terminal(lastOp.Status) => pollAt >= DeadlineTicks )
               => pollerResult = Returned(TimeoutResult) )
    /\ [][pollerResult.returned => polls' = polls]_vars

\* C6: when the context is cancelled while the poller is parked in its
\* select, no GetStatus call starts afterwards, the poller returns in the same
\* poll interval, and what it returns is the cancellation.
C6_CancelMidWait ==
    /\ [](cancelMidWait =>
            IF pollerResult.returned
               THEN /\ pollerResult = Returned(Ret("", CtxCanceled))
                    /\ returnAt - cancelAt <= 1
               ELSE pc = "select" /\ now = cancelAt)
    /\ [][cancelMidWait => polls' = polls]_vars

C6_Witness ==
    /\ cancelMidWait
    /\ polls >= 1
    /\ pollerResult = Returned(Ret("", CtxCanceled))
    /\ returnAt = cancelAt

\* C7: Create calls Sites.Get only after waitForOperation returned success and
\* with exactly the identifier it returned; the state is written only after
\* that Get succeeded; when the POST, the poller or the Get fails, no state is
\* written.
C7_FetchAfterPoller ==
    /\ siteGets # <<>> =>
          /\ pollerResult.returned /\ pollerResult.err = Nil
          /\ siteGets = <<pollerResult.id>>
    /\ tfState.set =>
          /\ siteGets = <<pollerResult.id>>
          /\ tfState.ID = pollerResult.id
          /\ diags = <<>>
    /\ (pollerResult.returned /\ pollerResult.err # Nil) => diags # <<>>
    /\ (pc = "done" /\ ~tfState.set) => diags # <<>>
    /\ diags # <<>> => ~tfState.set /\ pc = "done"

C7_Witness ==
    /\ tfState.set
    /\ polls >= 2
    /\ siteGets = <<"site_42">>
    /\ tfState.ID = "site_42"

\* C8: within one site Create call the provisioning request is submitted
\* exactly once, and once the poller has returned (success, failed, timeout,
\* cancellation or a status-fetch error) nothing is submitted or polled again.
C8_ExitsAreTerminal ==
    /\ [](posts = IF pc = "init" THEN 0 ELSE 1)
    /\ [][pollerResult.returned =>
            /\ posts' = posts
            /\ polls' = polls
            /\ pollerResult' = pollerResult]_vars

C8_Witness ==
    /\ pc = "done"
    /\ posts = 1
    /\ pollerResult.returned
    /\ pollerResult.err = <<"operation timed out after 10 minutes">>

\* The failures a GetStatus call can end in.
FetchFailures == HttpErrors \cup {CtxCanceled}

\* C26: when a GetStatus call of the poller fails, waitForOperation returns
\* at once, with that failure as its error, and no GetStatus call follows:
\* every call but a failed, last one yielded a status.
C26_FetchFailureEndsPolling ==
    /\ [](polls = Len(statuses) +
                 (IF \/ pc = "fetching"
                     \/ pollerResult.returned /\ IsStatusFetchError(pollerResult.err)
                  THEN 1 ELSE 0))
    /\ []((pollerResult.returned /\ IsStatusFetchError(pollerResult.err)) =>
            /\ \E e \in FetchFailures :
                  pollerResult = Returned(Ret("", <<"failed to get operation status: ">> \o e))
            /\ pc = "done"
            /\ siteGets = <<>>)
    /\ [][(pc = "fetching" /\ pc' # "fetching" /\ statuses' = statuses) =>
            /\ pollerResult'.returned
            /\ IsStatusFetchError(pollerResult'.err)
            /\ returnAt' = now]_vars
    /\ [][pollerResult.returned => polls' = polls]_vars

C26_Witness ==
    /\ statuses = <<"pending">>
    /\ polls = 2
    /\ pc = "done"
    /\ pollerResult =
          Returned(Ret("", <<"failed to get operation status: ",
                             "HTTP 500: ", "internal error">>))

----------------------------------------------------------------------------
(* Properties of DatabaseService.Create. *)

\* C9: if the creation request succeeds, the first post-creation Get fails
\* and the second succeeds, Create returns the second Get's record and no
\* error.
C9_SecondGetWins ==
    ( /\ Len(dbGetLog) >= 2
      /\ dbGetLog[1].err # Nil
      /\ dbGetLog[2].err = Nil )
        => /\ dbRet = [returned |-> TRUE, db |-> dbGetLog[2].db, err |-> Nil]
           /\ Len(dbGetLog) = 2

C9_Witness ==
    /\ Len(dbGetLog) = 2
    /\ dbGetLog[1].err # Nil
    /\ dbGetLog[2] = [db |-> [ID |-> "db_1", Status |-> "ready"], err |-> Nil]
    /\ dbRet = [returned |-> TRUE, db |-> [ID |-> "db_1", Status |-> "ready"], err |-> Nil]

\* C10: after a successful creation request at most 3 post-creation Gets are
\* issued, none after one that succeeded, and when all three fail Create
\* returns the error of the third.
C10_AtMostThreeGets ==
    /\ Len(dbGetLog) <= 3
    /\ \A k \in 1..(Len(dbGetLog) - 1) : dbGetLog[k].err # Nil
    /\ dbGetLog # <<>> => dbPosts = 1 /\ dbID \in DatabaseIDs
    /\ ( /\ Len(dbGetLog) < 3
         /\ dbPosts = 1 /\ dbID # ""
         /\ \A k \in 1..Len(dbGetLog) : dbGetLog[k].err # Nil ) => ~dbRet.returned
    /\ (Len(dbGetLog) = 3 /\ dbGetLog[3].err # Nil) =>
          /\ dbRet.returned
          /\ dbRet.err = dbGetLog[3].err

C10_Witness ==
    /\ Len(dbGetLog) = 3
    /\ dbGetLog[1].err = <<"HTTP 404: ", "Database not found">>
    /\ dbGetLog[2].err = <<"HTTP 404: ", "Database not found">>
    /\ dbGetLog[3].err = <<"HTTP 500: ", "internal error">>
    /\ dbRet.returned
    /\ dbRet.err = <<"HTTP 500: ", "internal error">>

\* C11: once an attempt of the database Create call has ended in the
\* context's cancellation error, the call starts no further HTTP attempt
\* (no further post-creation Get is issued).
C11_NoAttemptAfterCancel ==
    [][ ( /\ dbGetLog # <<>>
          /\ dbGetLog[Len(dbGetLog)].err = CtxCanceled )
        => dbGetLog' = dbGetLog ]_vars

----------------------------------------------------------------------------
(* Properties of the Transport. *)

\* text contains sub as a contiguous run of tokens.
ContainsSeq(text, sub) ==
    \E i \in 0..(Len(text) - Len(sub)) : SubSeq(text, i + 1, i + Len(sub)) = sub

\* The Transport call has returned after a response of status >= 400.
FailureStatusReturned ==
    /\ trPc = "done"
    /\ trResp # NoResponse
    /\ trResp.StatusCode >= 400

\* The decoded message member, else the decoded error member, else rest.
PreferredText(resp, rest) ==
    LET d == Unmarshal(resp.Body)
    IN  IF resp.readable /\ d.ok /\ d.Message # "" THEN <<d.Message>>
        ELSE IF resp.readable /\ d.ok /\ d.Error # "" THEN <<d.Error>>
        ELSE rest

\* C12 as stated: a response with status >= 400 yields a non-nil error
\* whose text contains the decoded message if present, else the decoded
\* error, else the raw body.
C12_ErrorContainsRawBody ==
    FailureStatusReturned =>
        /\ trErr # Nil
        /\ ContainsSeq(trErr, PreferredText(trResp, RawBody(trResp.Body)))

\* C12, amended: a response with status >= 400 yields a non-nil error whose
\* text contains the decoded message if present, else the decoded error,
\* else the raw body with the white space around it trimmed; when the body
\* cannot be read the text is "HTTP <status>: failed to read error response".
C12_ErrorContainsTrimmedBody ==
    FailureStatusReturned =>
        /\ trErr # Nil
        /\ IF trResp.readable
              THEN ContainsSeq(trErr,
                       PreferredText(trResp, TrimSpace(RawBody(trResp.Body))))
              ELSE trErr = <<"HTTP ", ToString(trResp.StatusCode), ": ",
                             "failed to read error response">>

C12_Witness ==
    /\ trPc = "done"
    /\ trReq.method = "PUT"
    /\ trResp.StatusCode = 500
    /\ trResp.readable
    /\ trResp.Body.kind = "text"
    /\ trResp.Body.lead = <<" ">>
    /\ trResp.Body.trail = <<"\n">>
    /\ trErr = <<"HTTP ", "500", ": ", "Bad", " ", "Gateway">>

\* C13 as stated: every Transport call performs exactly one HTTP exchange,
\* and nothing is sent once the call has returned.
C13_ExactlyOneExchange ==
    /\ [](trPc = "done" => trExchanges = 1)
    /\ [][trPc = "done" => trExchanges' = trExchanges]_vars

\* C13, amended: a Transport call performs at most one HTTP exchange:
\* exactly one when the request could be built, none when the URL cannot be
\* constructed (the call then returns that error); a call whose exchange
\* ended in a failure status or a transport-level failure has returned the
\* error and sent nothing more.
C13_AtMostOneExchange ==
    /\ trExchanges <= 1
    /\ trPc = "sent" => trExchanges = 1
    /\ trPc = "done" =>
          IF trReq.base = DefaultBaseURL
             THEN trExchanges = 1
             ELSE /\ trExchanges = 0
                  /\ trResp = NoResponse
                  /\ trErr = <<"failed to construct URL: ", "missing protocol scheme">>
    /\ (trPc = "done" /\ trResp # NoResponse /\ trResp.StatusCode >= 400) =>
          trErr = handleError(trResp)
    /\ (trPc = "done" /\ trExchanges = 1 /\ trResp = NoResponse) =>
          trErr \in { CtxCanceled, <<"connection refused">>,
                      <<"context deadline exceeded">> }

C13_Witness ==
    /\ trPc = "done"
    /\ trExchanges = 1
    /\ trResp = NoResponse
    /\ trErr = <<"connection refused">>

----------------------------------------------------------------------------
(* Properties of the Update requests. *)

\* The member of the body for a field of the request sent, "omitted" when
\* the body has no such member.
Transmitted(f) ==
    LET t == CHOOSE t \in RequestType(updKind) : t.field = f
    IN  IF t.json \in DOMAIN updBody THEN updBody[t.json] ELSE "omitted"

\* C14: in every Update call a field left nil in the request is omitted
\* from the serialized body, never sent as null, and every pointer field
\* that is set is sent with its value (the zero value included): the
\* members sent are exactly the fields present in the partial request.  (The
\* one slice field, EnvironmentVariables, is present when it has elements.)
C14_NilFieldsOmitted ==
    updKind # "" =>
        /\ \A f \in FieldNames(RequestType(updKind)) :
              LET t == CHOOSE t \in RequestType(updKind) : t.field = f
              IN  /\ updReq[f] = "nil" => Transmitted(f) = "omitted"
                  /\ (t.kind = "pointer" /\ updReq[f] # "nil")
                        => Transmitted(f) = updReq[f]
                  /\ (t.kind = "slice" /\ updReq[f] = "value")
                        => Transmitted(f) = "value"
                  /\ Transmitted(f) # "null"
        /\ DOMAIN updBody \subseteq { t.json : t \in RequestType(updKind) }
        /\ updPlan # NoPlan =>
              \A f \in DOMAIN updPlan :
                 Transmitted(f) = (IF updPlan[f] = "null" THEN "omitted" ELSE updPlan[f])

C14_Witness ==
    /\ updKind = "static_site"
    /\ updPlan # NoPlan
    /\ updPlan["DisplayName"] = "value"
    /\ updPlan["BuildCommand"] = "zero"
    /\ updPlan["NodeVersion"] = "null"
    /\ updBody = [k \in {"display_name", "build_command"} |->
                     IF k = "display_name" THEN "value" ELSE "zero"]

----------------------------------------------------------------------------
(* Properties of the adapters. *)

\* The latest handler was a Read that succeeded.
ReadSucceeded == adLast.op = "read" /\ adLast.err = Nil

\* The attributes a Read populates from the fetched record.
OutputFields(kind) == { f \in AttrNames(kind) : AttrOf(kind, f).read # "never" }

\* The value of an attribute derived from a record alone: the member's
\* value, null for an optional member the record lacks.
FreshValue(kind, rec, f) ==
    IF AttrOf(kind, f).read \in {"orNull", "ifSet"} /\ ~rec.opt
       THEN StringNull
       ELSE MemberValue(rec, f)

\* C15: after a successful Read every output field of the state holds the
\* value derived from the freshly fetched record; none keeps the value it
\* had before the Read.
C15_ReadReplacesAll ==
    ReadSucceeded =>
        \A f \in OutputFields(adKind) :
           adState.data[f] = FreshValue(adKind, adLast.rec, f)

\* C16: two Reads in succession, nothing in between and the platform's
\* record unchanged, leave the same state both times.
C16_ReadIdempotent ==
    ( /\ ReadSucceeded
      /\ adPrev.op = "read"
      /\ adPrev.err = Nil
      /\ adPrev.rec = adLast.rec )
        => /\ adState = adLast.before
           /\ adState.present

C16_Witness ==
    /\ adKind = "application"
    /\ ReadSucceeded
    /\ adPrev.op = "read"
    /\ adPrev.err = Nil
    /\ adPrev.rec = adLast.rec
    /\ ~adLast.rec.opt
    /\ adState.data["Instances"] = "cfg"
    /\ adState.data["Status"] = "v2"

\* The attributes the acceptance tests leave out of the comparison after
\* an import (ImportStateVerifyIgnore).
ImportStateVerifyIgnore(kind) == IF kind = "database" THEN {"DBPassword"} ELSE {}

\* C17: the state after Import of the identifier followed by Read equals
\* the state held after Create in every attribute but the ignored ones.
C17_ImportMatchesCreate ==
    ( /\ ReadSucceeded
      /\ adPrev.op = "import"
      /\ adCreated.set
      /\ adLast.rec = adCreated.rec )
        => \A f \in AttrNames(adKind) \ ImportStateVerifyIgnore(adKind) :
              adState.data[f] = adCreated.data[f]

\* C18: when the Get of a Read fails with the platform's not-found error,
\* the Read ends with the resource absent from the state and not failed.
C18_NotFoundMeansAbsent ==
    (adLast.op = "read" /\ adLast.err = NotFound)
        => /\ ~adState.present
           /\ adLast.diag = Nil

\* C19: when the platform answers a Delete with any error, not-found
\* included, Delete reports the failure and the resource stays in the state.
C19_DeleteErrorIsFatal ==
    (adLast.op = "delete" /\ adLast.err # Nil)
        => /\ adLast.diag = <<"Unable to ", "delete", ", got error: ">> \o adLast.err
           /\ adState.present
           /\ adState = adLast.before

C19_Witness ==
    /\ adLast.op = "delete"
    /\ adLast.err = <<"HTTP ", "404", ": ", "not found">>
    /\ adLast.diag # Nil
    /\ adState.present
    /\ ~adRemote.exists

----------------------------------------------------------------------------
(* Properties of the provider configuration. *)

\* The credential Configure resolves: the token attribute when it is given,
\* the SEVALLA_TOKEN environment variable otherwise.
ResolvedToken ==
    IF cfgInput.token # StringNull THEN cfgInput.token ELSE cfgInput.env

\* C20: a resource or data source holds a client only when the provider was
\* configured with a non-empty resolved credential, and that client carries
\* the credential; with no credential Configure reports the error "Unable
\* to find token" and supplies no client.
C20_ClientOnlyWithCredential ==
    /\ \A r \in ResourceTypes :
          /\ resourceClient[r] # NoClient =>
                (cfgDone /\ ResolvedToken # "" /\ resourceClient[r].Token = ResolvedToken)
          /\ dataSourceClient[r] # NoClient =>
                (cfgDone /\ ResolvedToken # "" /\ dataSourceClient[r].Token = ResolvedToken)
    /\ (resourceData.set \/ dataSourceData.set) =>
          /\ cfgDone
          /\ ResolvedToken # ""
          /\ resourceData.Client.Token = ResolvedToken
          /\ dataSourceData = resourceData
          /\ cfgDiags = <<>>
    /\ (cfgDone /\ ResolvedToken = "") =>
          /\ cfgDiags = <<"Unable to find token">>
          /\ ~resourceData.set
          /\ ~dataSourceData.set
          /\ \A r \in ResourceTypes :
                resourceClient[r] = NoClient /\ dataSourceClient[r] = NoClient

C20_Witness ==
    /\ cfgDone
    /\ cfgInput.env = ""
    /\ cfgInput.token = StringNull
    /\ cfgDiags = <<"Unable to find token">>
    /\ resourceData = NoProviderData
    /\ dataSourceData = NoProviderData

\* C21: the credential and the base endpoint handed to the client are each
\* the value given in the provider configuration when one is given, and the
\* value of their environment variable when it is not.
C21_ConfigThenEnvironment ==
    resourceData.set =>
        /\ resourceData.Client.Token =
              (IF cfgInput.token # StringNull THEN cfgInput.token ELSE cfgInput.env)
        /\ resourceData.Client.BaseURL =
              (IF cfgInput.base \notin {StringNull, ""} THEN cfgInput.base
               ELSE IF cfgInput.base = StringNull /\ cfgInput.envBase # ""
                    THEN cfgInput.envBase
               ELSE DefaultBaseURL)

----------------------------------------------------------------------------
(* Properties of service calls made at the same time through one Client. *)

\* The request and the result of a service call made with nothing else
\* running, for an application whose record is app when the call starts.
AloneRequest(call, id) == makeRequest(SharedClient, call, id)

AloneResult(call, id, app) == VerbResult(Serve(app, AloneRequest(call, id)))

----------------------------------------------------------------------------
(* Properties of ProviderCache and the cached reads. *)

\* C23: after an update of an application has completed through the client,
\* a cached read of that application does not return a record from before
\* the update: it returns the version the platform holds.
C23_NoStaleReadAfterUpdate ==
    (cacheLast.op = "GetApplicationCached" /\ cacheLast.err = Nil) =>
        cacheLast.data = cacheRemote[cacheLast.id]

\* C24: ProviderCache.Get, as the cached read calls it, finds a value only
\* if an entry is stored under the key and no more than its TTL, five
\* minutes, has passed since it was stored; the value is the stored one;
\* otherwise it reports a miss.
C24_GetOnlyWithinTTL ==
    cacheLast.op = "GetApplicationCached" =>
        /\ cacheLast.found <=>
              /\ cacheLast.entry.exists
              /\ cacheLast.at - cacheLast.entry.Timestamp <= cacheLast.entry.TTL
        /\ cacheLast.found =>
              /\ cacheLast.data = cacheLast.entry.Data
              /\ cacheLast.entry.TTL = CacheTTL

C24_Witness ==
    /\ cacheLast.op = "GetApplicationCached"
    /\ ~cacheLast.found
    /\ cacheLast.entry.exists
    /\ cacheLast.at - cacheLast.entry.Timestamp = CacheTTL + 1
    /\ cacheLast.err = Nil

----------------------------------------------------------------------------
(* Properties of the batch processor. *)

\* Submit has been called for the operation and it is still on its way.
InFlight(op) ==
    \/ bpSending[op] > 0
    \/ \E i \in DOMAIN bpOperations : bpOperations[i] = op
    \/ \E i \in DOMAIN bpBatch : bpBatch[i] = op

\* C25: every submitted operation is eventually executed (its Done channel
\* closed), a tick the processor takes leaves no received operation
\* waiting, and a Wait call blocked on a submitted operation's id returns.
C25_SubmittedEventuallyDone ==
    /\ \A op \in BatchOperations : InFlight(op) ~> (bpCloses[op] >= 1)
    /\ \A id \in BatchIDs :
          (bpWait[id].pc = "blocked") ~> (bpWait[id].pc = "returned")
    /\ [][ProcessTick => bpBatch' = <<>>]_vars

\* C30: however Submit is called, with the same operation or the same id
\* more than once, no operation's Done channel is closed a second time.
C30_DoneClosedAtMostOnce ==
    \A op \in BatchOperations : bpCloses[op] <= 1

----------------------------------------------------------------------------
(* Properties of the rate limiter. *)

\* C29: the Wait calls that have returned without error never outnumber
\* rateLimit plus the refill ticks fired since the limiter was made.
C29_GrantsBounded == rlGranted <= RateLimit + rlTicks

C29_Witness ==
    /\ rlTicks = 2
    /\ rlGranted = RateLimit + rlTicks
    /\ rlTokens = 0
    /\ rlRefused = 1

\* C27: whatever statuses are reported and in whatever order ticks, the
\* deadline and a cancellation arrive, waitForOperation has returned no later
\* than the deadline plus the duration of one GetStatus call (the longest
\* one of the run).
C27_ReturnsByDeadlinePlusFetch ==
    pollerResult.returned => returnAt <= DeadlineTicks + fetchMax

----------------------------------------------------------------------------
(* DatabaseResource.Create: what an error leaves behind. *)

\* C28: when Create ends in an error, the creation request itself failed:
\* a Create call that set no state leaves no database created on the
\* platform (no POST /databases of the call was answered with an id).
C28_ErrorMeansNothingCreated ==
    /\ (dbPc = "done" /\ dbRet.err # Nil) => (dbID = "" /\ dbGetLog = <<>>)
    /\ (dbPc = "done" /\ ~dbState.set) => dbID = ""

====
